---- MODULE Spec2Model ----
(***************************************************************************)
(* A model of the function-hcl evaluator (internal/evaluator and its       *)
(* functions/ and locals/ packages).                                       *)
(*                                                                         *)
(* The HCL expression engine is an external library.  An expression is     *)
(* modelled by what its evaluation yields to the evaluator: a value that   *)
(* is wholly known or not, and the diagnostics of the evaluation.          *)
(* Go map iteration order is unspecified: every place where the code       *)
(* ranges over a map takes the order as a nondeterministic input.          *)
(***************************************************************************)
EXTENDS Integers, Sequences, FiniteSets, TLC

VARIABLES
    pc,        \* position of doEval: "new", "blocks", "iter", "done", "failed"
    in,        \* the RunFunctionRequest given to Eval
    ctx,       \* the variables under req of the context makeVars built
    files,     \* the merged top-level blocks of the files given to Eval
    bi,        \* processGroup: number of blocks of content.Blocks processed
    e,         \* the Evaluator struct
    inv,       \* the invoker shared by every invoke call of the run
    diags,     \* doEval: the diagnostics accumulated so far
    curDiags,  \* processGroup: the diagnostics of the block processed last
    calls,     \* addResource: the resource names it was called with, in order
    loop,      \* processResources: the iterations and the loop index
    response,  \* the value returned by Eval
    run,       \* which evaluation of the same request and files this is
    first,     \* the value the first evaluation returned
    lsrc,      \* locals processor: the declared locals (name -> expression)
    lout,      \* locals processor: the result of Process
    uin,       \* unify: the input objects
    uout,      \* unify: the result
    ilast,     \* invoke: the latest top-level invoke call and its result
    alast      \* Analyze: the latest call, the evaluator before it and its result

vars == <<pc, in, ctx, files, bi, e, inv, diags, curDiags, calls, loop, response,
          run, first, lsrc, lout, uin, uout, ilast, alast>>

evalVars == <<pc, in, ctx, files, bi, e, diags, curDiags, calls, loop, response, run, first>>

-----------------------------------------------------------------------------
(* Bounds of the model *)

MaxBlocks == 2
MaxRefs == 2
MaxInputs == 3
MaxLeak == 2

-----------------------------------------------------------------------------
(* Values and diagnostics *)

\* a cty value that is not wholly known
Unknown == [t |-> "unknown"]

\* a wholly known cty value
Known(v) == [t |-> "known", v |-> v]

IsWhollyKnown(val) == val.t = "known"

DiagError == "error"
DiagWarning == "warning"

Diag(sev, summary, subject) == [Severity |-> sev, Summary |-> summary, Subject |-> subject]

HasErrors(ds) == \E i \in 1..Len(ds) : ds[i].Severity = DiagError

DowngradeDiagsNone(ds) == ds

\* hclutils.DowngradeDiags: every error becomes a warning
DowngradeDiags(ds) ==
    [i \in 1..Len(ds) |-> [ds[i] EXCEPT !.Severity = DiagWarning]]

\* the empty map
EmptyMap == <<>>

Put(m, k, v) == (k :> v) @@ m

RECURSIVE SeqOfSet(_)
SeqOfSet(S) == IF S = {} THEN <<>>
               ELSE LET x == CHOOSE y \in S : TRUE IN <<x>> \o SeqOfSet(S \ {x})

\* all orders in which a Go range may visit the keys S
Orders(S) == { s \in [1..Cardinality(S) -> S] : \A i, j \in 1..Cardinality(S) : i # j => s[i] # s[j] }

-----------------------------------------------------------------------------
(* User functions: invoker.invoke and UserFunction.invoke *)

maxDepth == 100

ErrMaxDepth == "user function calls: max depth 100 exceeded"

newInvoker == [depth |-> 0]

\* The call stack of the invoke calls in progress: depth is invoker.depth,
\* frames the number of invoke calls that passed the depth check and have not
\* returned, err the error being returned.
NoFrames(i) == [depth |-> i.depth, frames |-> 0, err |-> ""]

\* invoker.invoke, line 96: the depth check
DepthExceeded(depth) == depth >= maxDepth

\* invoker.invoke, lines 95-98: entry of a (nested) invoke call
invokeEnter(x) ==
    IF x.err # "" THEN x
    ELSE IF DepthExceeded(x.depth + 1)
    THEN [x EXCEPT !.depth = x.depth + 1, !.err = ErrMaxDepth]
    ELSE [x EXCEPT !.depth = x.depth + 1, !.frames = x.frames + 1]

\* invoker.invoke, lines 99-101: the deferred decrement, run when a call
\* that passed the depth check returns (with a value or with an error)
invokeExit(x) ==
    IF x.frames = 0 THEN x
    ELSE [x EXCEPT !.depth = x.depth - 1, !.frames = x.frames - 1]

\* The function table of the model holds the functions chain1, chain2, ...:
\* the body of chain1 is a literal and the body of chain(k+1) is
\* invoke("chain(k)", {}), so invoke("chain(n)", {}) is a chain of n nested
\* invoke calls.  No call of the chain
\* returns before the innermost one, so the k-th nested call raises the
\* counter to i.depth + k and is the first one rejected when that value fails
\* the depth check.  An error of a nested call is the error of its caller
\* (UserFunction.invoke, lines 42-45): the calls that passed the check undo
\* their increment on the way out, the rejected one does not.
\* invokeChain is the result of the outermost call: [val, err, inv].
invokeChain(i, n) ==
    LET rejected == { k \in 1..n : DepthExceeded(i.depth + k) } IN
    IF rejected = {}
    THEN [val |-> Known("v"), err |-> "", inv |-> i]
    ELSE LET kf == CHOOSE k \in rejected : \A j \in rejected : k <= j IN
         [val |-> Unknown, err |-> ErrMaxDepth,
          inv |-> [depth |-> (i.depth + kf) - (kf - 1)]]




-----------------------------------------------------------------------------
(* The evaluator: types and constants of evaluator.go *)

blockResource == "resource"
blockResources == "resources"
blockGroup == "group"
blockComposite == "composite"
blockRequirement == "requirement"
blockLabelStatus == "status"
blockLabelConnection == "connection"

annotationBaseName == "hcl.fn.crossplane.io/collection-base-name"
annotationIndex == "hcl.fn.crossplane.io/collection-index"

discardTypeResource == "resource"
discardTypeResourceList == "resources"
discardTypeGroup == "group"
discardTypeStatus == "composite-status"
discardTypeConnection == "composite-connection"
discardTypeRequirement == "requirement"
discardTypeContext == "context"

discardReasonUserCondition == "user-condition"
discardReasonIncomplete == "incomplete"
discardReasonBadSecret == "bad-secret"

DiscardItem(type, reason, name) == [Type |-> type, Reason |-> reason, Name |-> name]

\* New: a fresh evaluator
NewEvaluator ==
    [ existingResourceMap    |-> EmptyMap,
      existingConnectionMap  |-> EmptyMap,
      collectionResourcesMap |-> EmptyMap,
      desiredResources       |-> EmptyMap,
      compositeStatuses      |-> <<>>,
      compositeConnections   |-> <<>>,
      requirements           |-> EmptyMap,
      contexts               |-> <<>>,
      ready                  |-> EmptyMap,
      discards               |-> <<>> ]

\* Evaluator.discard
discard(E, el) == [E EXCEPT !.discards = Append(E.discards, el)]

-----------------------------------------------------------------------------
(* Requests *)

\* the byte of a character of the strings of the model that are compared
CharCode ==
    [ c \in {"0", "1", "2", "3", "4", "5", "6", "7", "8", "9"} |->
        48 + (CHOOSE d \in 0..9 : ToString(d) = c) ] @@ ("s" :> 115)

\* a < b for Go strings, given as their characters: the bytes are compared
\* from the first on, and a proper prefix is less
StrLess(a, b) ==
    LET n == IF Len(a) < Len(b) THEN Len(a) ELSE Len(b)
        differ == { k \in 1..n : a[k] # b[k] }
    IN IF differ = {} THEN Len(a) < Len(b)
       ELSE LET k == CHOOSE d \in differ : \A o \in differ : d <= o IN
            CharCode[a[k]] < CharCode[b[k]]

\* an observed resource: its name, the two collection annotations it
\* carries (empty when it carries none; the index is given as its
\* characters) and its connection details
Observed(name, base, index) ==
    [name |-> name, base |-> base, index |-> index, connection |-> [of |-> name]]

NoIndex == <<>>

ObservedUniverse ==
    [ x |-> Observed("x", "", NoIndex) ]
    @@ ("c-0" :> Observed("c-0", "c", <<"s", "0", "0", "0", "0", "0", "0">>))

\* the requests of the model: any subset of the observed universe
Requests ==
    { [observed |-> [n \in S |-> ObservedUniverse[n]]] : S \in SUBSET (DOMAIN ObservedUniverse) }

\* the names of the observed resources that have the base name b
MembersOf(observedResources, b) ==
    { n \in DOMAIN observedResources : observedResources[n].base = b }

\* trackBaseNames, lines 169-173: v is sorted by sort.Slice with the less
\* function v[i].index < v[j].index (elements with equal indexes may end up
\* in any order)
SortedByIndex(observedResources, v) ==
    \A i, j \in 1..Len(v) :
        i < j => ~StrLess(observedResources[v[j]].index, observedResources[v[i]].index)

\* Evaluator.trackBaseNames: the maps it may return, from a base name to the
\* names of the observed resources of the collection, sorted by index.
\* Resources without a base name annotation are skipped.
trackBaseNames(observedResources) ==
    LET bases == { observedResources[n].base : n \in DOMAIN observedResources } \ {""}
        sorted(b) == { v \in Orders(MembersOf(observedResources, b)) :
                         SortedByIndex(observedResources, v) }
    IN { m \in [bases -> UNION { sorted(b) : b \in bases }] : \A b \in bases : m[b] \in sorted(b) }

\* Evaluator.makeVars: [e, ctx], the lookup tables of the evaluator and the
\* variables under req of the context it returns.  The members of a
\* collection are deleted from the tables of the evaluator, which are
\* copies (AsValueMap) of the resource and connection objects of topMap;
\* the two objects go into the context as they were built (lines 221-222
\* and 264-268).
makeVars(E, req, baseNameMap) ==
    LET members == UNION { { baseNameMap[b][k] : k \in 1..Len(baseNameMap[b]) } : b \in DOMAIN baseNameMap }
        observedResourceMap == req.observed
        observedConnectionMap == [ n \in DOMAIN req.observed |-> req.observed[n].connection ]
    IN [ e |-> [E EXCEPT
                 !.existingResourceMap =
                     [ n \in (DOMAIN observedResourceMap) \ members |-> observedResourceMap[n] ],
                 !.existingConnectionMap =
                     [ n \in (DOMAIN observedConnectionMap) \ members |-> observedConnectionMap[n] ] ],
         ctx |-> [ resource |-> observedResourceMap,
                   connection |-> observedConnectionMap,
                   resources |->
                       [ b \in DOMAIN baseNameMap |->
                           [ k \in 1..Len(baseNameMap[b]) |-> observedResourceMap[baseNameMap[b][k]] ] ],
                   connections |->
                       [ b \in DOMAIN baseNameMap |->
                           [ k \in 1..Len(baseNameMap[b]) |-> observedConnectionMap[baseNameMap[b][k]] ] ] ] ]

-----------------------------------------------------------------------------
(* Source blocks and expressions *)

\* Body and name expressions, by what evaluating them yields:
\*   lit      a wholly known object
\*   each     a wholly known object built from each.value
\*   unknown  a value that is not wholly known, without diagnostics
\*   badref   an error diagnostic (a reference to a missing attribute)
\*   invoke   the result of a chain of n nested invoke calls
\*   annotated a wholly known object built from each.value, with
\*            metadata.annotations
Expr(k, n) == [k |-> k, n |-> n]

ExprLit == Expr("lit", 0)
ExprEach == Expr("each", 0)
ExprUnknown == Expr("unknown", 0)
ExprBadRef == Expr("badref", 0)
ExprDeep == Expr("invoke", maxDepth + 1)
ExprAnnotated(a) == [k |-> "annotated", n |-> 0, a |-> a]

\* the annotations of the template bodies of the model: a key of the
\* template's own, alone and with a key the collection annotations use
TemplateAnnotations ==
    { ("team" :> "t"),
      ("team" :> "t") @@ (annotationIndex :> <<"m", "i", "n", "e">>) }

NoEach == [key |-> "", value |-> ""]

\* Expression.Value for a body attribute
EvalBody(expr, each, i) ==
    CASE expr.k = "lit"     -> [val |-> Known("v"), ds |-> <<>>, inv |-> i]
      [] expr.k = "each"    -> [val |-> Known(each.value), ds |-> <<>>, inv |-> i]
      [] expr.k = "annotated" ->
            [val |-> [t |-> "known", v |-> each.value, annotations |-> expr.a],
             ds |-> <<>>, inv |-> i]
      [] expr.k = "unknown" -> [val |-> Unknown, ds |-> <<>>, inv |-> i]
      [] expr.k = "badref"  -> [val |-> Unknown,
                                ds |-> <<Diag(DiagError, "Unsupported attribute", "")>>,
                                inv |-> i]
      [] expr.k = "invoke"  ->
            LET r == invokeChain(i, expr.n) IN
            [val |-> r.val,
             ds |-> IF r.err = "" THEN <<>> ELSE <<Diag(DiagError, r.err, "")>>,
             inv |-> r.inv]

\* a block of the merged content: a resource block (Label is the resource
\* name) or a resources block (Label is the base name)
Block(type, label, cond, forEach, name, body) ==
    [Type |-> type, Label |-> label, condition |-> cond, for_each |-> forEach,
     name |-> name, body |-> body]

NoForEach == [t |-> "none", elems |-> <<>>]
ForEachList == [t |-> "list", elems |-> <<"p", "q">>]
ForEachMap == [t |-> "map", elems |-> [a |-> "p", b |-> "q"]]
ForEachNull == [t |-> "null", elems |-> <<>>]

ResourceBlocks ==
    { Block(blockResource, name, cond, NoForEach, "", body) :
        name \in {"x", "c-0"}, cond \in {"none", "false"},
        body \in {ExprLit, ExprUnknown, ExprDeep} }

ResourcesBlocks ==
    { Block(blockResources, "c", "none", fe, nm, body) :
        fe \in {ForEachList, ForEachMap}, nm \in {"default", "x"},
        body \in {ExprEach, ExprUnknown} }
    \cup { Block(blockResources, "c", "none", ForEachList, "default", ExprAnnotated(a)) :
             a \in TemplateAnnotations }
    \cup { Block(blockResources, "c", "false", ForEachList, "default", ExprEach),
           Block(blockResources, "c", "none", ForEachNull, "default", ExprEach),
           Block(blockResources, "c", "none", ForEachList, "default", ExprBadRef) }

Blocks == ResourceBlocks \cup ResourcesBlocks

\* the sources of the model: up to MaxBlocks top-level blocks
Sources == UNION { [1..n -> Blocks] : n \in 1..MaxBlocks }


-----------------------------------------------------------------------------
(* Unification: unify of utils.go *)

\* Go values as json.Unmarshal produces them: nil, float64, string and
\* map[string]any (Object)
Null == [t |-> "nil"]
Num(v) == [t |-> "float64", v |-> v]
Obj(m) == [t |-> "map", m |-> m]

\* reflect.TypeOf
TypeOf(v) == v.t

JoinPath(path, k) == IF path = "" THEN k ELSE path \o "." \o k

\* the keys of the object m in the order a range over it visits them, when
\* the visiting order of all keys is ord
RangeKeys(m, ord) == SelectSeq(ord, LAMBDA k : k \in DOMAIN m)

UnifyKeepExisting(merged, existing) == existing

\* what ret[k] becomes when both values are objects: their unification
UnifyMerged(merged, existing) == merged

RECURSIVE unifyObjects(_, _, _, _)
RECURSIVE unifyKeys(_, _, _, _, _)

\* the loop over the keys of one object (unify, lines 214-244); ret is
\* [err, path, val]
unifyKeys(path, ret, obj, keys, ord) ==
    IF keys = <<>> \/ ret.err # "" THEN ret
    ELSE
      LET k == Head(keys)
          v == obj[k]
          currentPath == JoinPath(path, k)
          next ==
            IF k \notin DOMAIN ret.val THEN [ret EXCEPT !.val = Put(ret.val, k, v)]
            ELSE LET existing == ret.val[k] IN
              IF TypeOf(existing) # TypeOf(v)
              THEN [err |-> "type mismatch", path |-> currentPath, val |-> ret.val]
              ELSE IF TypeOf(existing) = "map"
              THEN LET unified == unifyObjects(currentPath, <<v.m, existing.m>>, 1, ord) IN
                   IF unified.err # "" THEN unified
                   ELSE [ret EXCEPT !.val = Put(ret.val, k, Obj(UnifyMerged(unified.val, existing.m)))]
              ELSE IF v # existing
              THEN [err |-> "values not equal", path |-> currentPath, val |-> ret.val]
              ELSE ret
      IN unifyKeys(path, next, obj, Tail(keys), ord)

\* the loop over the objects (unify, line 213), from the from-th on
unifyObjects(path, objects, from, ord) ==
    LET RECURSIVE go(_, _)
        go(ret, j) ==
          IF j > Len(objects) \/ ret.err # "" THEN ret
          ELSE go(unifyKeys(path, ret, objects[j], RangeKeys(objects[j], ord), ord), j + 1)
    IN go([err |-> "", path |-> "", val |-> EmptyMap], from)

\* unify(inputs...): inputs are the maps of the objects
unify(inputs, ord) == unifyObjects("", inputs, 1, ord)


-----------------------------------------------------------------------------
(* Block processors: resources.go *)

ErrNotBool == "got type, expected bool"

conditionDiscardTwice(E, et, name) ==
    discard(discard(E, DiscardItem(et, discardReasonUserCondition, name)),
            DiscardItem(et, discardReasonUserCondition, name))

\* evaluateCondition, lines 132-139: the discard of a false condition
conditionDiscard(E, et, name) == discard(E, DiscardItem(et, discardReasonUserCondition, name))

\* Evaluator.evaluateCondition: [cond, e, ds, panic].  The condition
\* attribute is named by what its expression evaluates to:
\*   none         the block has no condition attribute
\*   true, false  a known boolean
\*   string       a known value of another type
\*   unknowndyn   an unknown value of no known type
\*   unknownbool  an unknown value of type bool (a comparison with a value
\*                that is not yet known); val.True() of line 132 panics on it
\*   badref       an error diagnostic
evaluateCondition(E, condition, et, name) ==
    CASE condition = "none"  -> [cond |-> TRUE, e |-> E, ds |-> <<>>, panic |-> FALSE]
      [] condition = "true"  -> [cond |-> TRUE, e |-> E, ds |-> <<>>, panic |-> FALSE]
      [] condition = "false" ->
            [cond |-> FALSE, e |-> conditionDiscard(E, et, name), ds |-> <<>>, panic |-> FALSE]
      [] condition = "badref" ->
            [cond |-> FALSE, e |-> E,
             ds |-> <<Diag(DiagError, "Unsupported attribute", "")>>, panic |-> FALSE]
      [] condition \in {"string", "unknowndyn"} ->
            [cond |-> FALSE, e |-> E,
             ds |-> <<Diag(DiagError, ErrNotBool, "")>>, panic |-> FALSE]
      [] condition = "unknownbool" ->
            [cond |-> FALSE, e |-> E, ds |-> <<>>, panic |-> TRUE]

NoAnnotations == EmptyMap

\* the decimal digits of i
RECURSIVE Digits(_)
Digits(i) == IF i < 10 THEN <<ToString(i)>> ELSE Append(Digits(i \div 10), ToString(i % 10))

\* the width of %06d
IndexWidth == 6

\* %06d: zeros on the left up to the width, nothing cut off
RECURSIVE PadLeft(_)
PadLeft(str) == IF Len(str) < IndexWidth THEN PadLeft(<<"0">> \o str) ELSE str

FormatIndexUnpadded(i) == <<"s">> \o Digits(i)

\* fmt.Sprintf("s%06d", i), as its characters
FormatIndex(i) == <<"s">> \o PadLeft(Digits(i))

\* the annotations processResources attaches to iteration i
collectionAnnotations(baseName, i) ==
    (annotationBaseName :> baseName) @@ (annotationIndex :> FormatIndex(i))

\* the metadata.annotations of a body value
AnnotationsOf(val) == IF "annotations" \in DOMAIN val THEN val.annotations ELSE EmptyMap

valueToStructCollectionOnly(val, a) == [body |-> val, annotations |-> a]

\* valueToStructWithAnnotations: the struct installed for a body value; the
\* entries of a are written into its metadata.annotations, over the entries
\* the body has under the same keys (the bodies of the model have no
\* metadata, or object metadata with object annotations)
valueToStructWithAnnotations(val, a) ==
    [body |-> val,
     annotations |-> [k \in DOMAIN a \cup DOMAIN AnnotationsOf(val) |->
                        IF k \in DOMAIN a THEN a[k] ELSE AnnotationsOf(val)[k]]]

IncompleteErrorsOnly(ds, out) == HasErrors(ds)

\* addResource, line 289: the body could not be fully evaluated
Incomplete(ds, out) == HasErrors(ds) \/ ~IsWhollyKnown(out)

IsDuplicateNever(E, resourceName) == FALSE

\* addResource, line 244: the dup check
IsDuplicate(E, resourceName) == resourceName \in DOMAIN E.desiredResources

\* addResource, line 319: the resource is in the observed state
IsExisting(E, resourceName) == resourceName \in DOMAIN E.existingResourceMap

ErrDuplicate == "duplicate resource"
ErrExisting == "existing resource could not be evaluated, abort"

\* Evaluator.addResource: [e, inv, ds, panic]
blockReady == "ready"
discardTypeReady == "resource-ready"

\* a ready block nested in a resource or template block: its value
\* attribute evaluates to a string ("READY_TRUE", "READY_FALSE",
\* "READY_UNSPECIFIED" or another one), to a number ("number") or to a
\* value that is not known yet ("unknown")
ReadyBlock(value) == [Type |-> blockReady, value |-> value]

\* fnv1.Ready_value
ReadyValues == {"READY_UNSPECIFIED", "READY_TRUE", "READY_FALSE"}

\* a resource or template block with blocks nested in it
WithBlocks(block, blocks) ==
    [Type |-> block.Type, Label |-> block.Label, condition |-> block.condition,
     for_each |-> block.for_each, name |-> block.name, body |-> block.body,
     blocks |-> blocks]

\* content.Blocks of a resource or template block
NestedBlocks(content) == IF "blocks" \in DOMAIN content THEN content.blocks ELSE <<>>

SetReadyOfBlock(E, resourceName, v) == [E EXCEPT !.ready = Put(@, blockReady, v)]

\* processReady, line 429
SetReady(E, resourceName, v) == [E EXCEPT !.ready = Put(@, resourceName, v)]

\* processReady: [e, ds]
processReady(E, resourceName, block) ==
    IF block.value = "unknown"
    THEN [e |-> discard(E, DiscardItem(discardTypeReady, discardReasonIncomplete, resourceName)),
          ds |-> <<>>]
    ELSE IF block.value = "number"
    THEN [e |-> E, ds |-> <<Diag(DiagError, "attribute value not a string in ready block", resourceName)>>]
    ELSE IF block.value \notin ReadyValues
    THEN [e |-> E, ds |-> <<Diag(DiagError, "attribute value does not have a valid value in ready block", resourceName)>>]
    ELSE [e |-> SetReady(E, resourceName, block.value), ds |-> <<>>]

\* addResource, lines 350-365: the blocks nested in the resource, from the
\* k-th on, up to the first that returns an error
RECURSIVE processNested(_, _, _, _)
processNested(E, resourceName, blocks, k) ==
    IF k > Len(blocks) THEN [e |-> E, ds |-> <<>>]
    ELSE LET r == IF blocks[k].Type = blockReady
                  THEN processReady(E, resourceName, blocks[k])
                  ELSE [e |-> E, ds |-> <<>>]
         IN IF HasErrors(r.ds) THEN r
            ELSE LET rest == processNested(r.e, resourceName, blocks, k + 1) IN
                 [e |-> rest.e, ds |-> r.ds \o rest.ds]

addResource(E, I, each, resourceName, content, annotations) ==
    IF IsDuplicate(E, resourceName)
    THEN [e |-> E, inv |-> I, ds |-> <<Diag(DiagError, ErrDuplicate, resourceName)>>,
          panic |-> FALSE]
    ELSE
      LET c == evaluateCondition(E, content.condition, discardTypeResource, resourceName) IN
      IF c.panic
      THEN [e |-> c.e, inv |-> I, ds |-> <<>>, panic |-> TRUE]
      ELSE IF HasErrors(c.ds)
      THEN [e |-> c.e, inv |-> I,
            ds |-> c.ds \o <<Diag(DiagError, "unable to evaluate condition for resource", resourceName)>>,
            panic |-> FALSE]
      ELSE IF ~c.cond
      THEN [e |-> c.e, inv |-> I, ds |-> <<>>, panic |-> FALSE]
      ELSE
        LET b == EvalBody(content.body, each, I) IN
        IF Incomplete(b.ds, b.val)
        THEN IF IsExisting(c.e, resourceName)
             THEN [e |-> c.e, inv |-> b.inv,
                   ds |-> c.ds \o b.ds \o <<Diag(DiagError, ErrExisting, resourceName)>>,
                   panic |-> FALSE]
             ELSE [e |-> discard(c.e, DiscardItem(discardTypeResource, discardReasonIncomplete, resourceName)),
                   inv |-> b.inv,
                   ds |-> c.ds \o DowngradeDiags(b.ds),
                   panic |-> FALSE]
        ELSE LET installed == [c.e EXCEPT !.desiredResources =
                                  Put(@, resourceName, valueToStructWithAnnotations(b.val, annotations))]
                 n == processNested(installed, resourceName, NestedBlocks(content), 1)
             IN [e |-> n.e,
                 inv |-> b.inv,
                 ds |-> c.ds \o b.ds \o n.ds,
                 panic |-> FALSE]

\* extractIterations: the iterations of a for_each value; order is the
\* order in which the range over a map value visits its keys
extractIterations(forEachValue, order) ==
    CASE forEachValue.t = "list" ->
            [err |-> FALSE,
             iters |-> [k \in 1..Len(forEachValue.elems) |->
                          [key |-> ToString(k - 1), value |-> forEachValue.elems[k]]]]
      [] forEachValue.t = "map" ->
            [err |-> FALSE,
             iters |-> [k \in 1..Len(order) |->
                          [key |-> order[k], value |-> forEachValue.elems[order[k]]]]]
      [] OTHER -> [err |-> TRUE, iters |-> <<>>]

\* the orders a range over the for_each value may take
IterationOrders(forEachValue) ==
    IF forEachValue.t = "map" THEN Orders(DOMAIN forEachValue.elems) ELSE {<<>>}

\* the name attribute of a resources block, evaluated for one iteration:
\* the default is "${self.basename}-${each.key}"
EvalName(nameExpr, baseName, each) ==
    IF nameExpr = "default" THEN baseName \o "-" \o each.key ELSE nameExpr

-----------------------------------------------------------------------------
(* Requirement blocks: requirements.go *)

\* the values the expressions of a select block evaluate to
SelString == [t |-> "string"]
SelNumber == [t |-> "number"]
SelObject == [t |-> "object"]
SelUnknown == [t |-> "unknown"]
SelBadRef == [t |-> "badref"]

\* expr.Value(ctx) for an expression of a select block: [known, ds]
EvalSel(x) ==
    CASE x.t = "unknown" -> [known |-> FALSE, ds |-> <<>>]
      [] x.t = "badref"  -> [known |-> FALSE, ds |-> <<Diag(DiagError, "Unsupported attribute", "")>>]
      [] OTHER           -> [known |-> TRUE, ds |-> <<>>]

\* the selection of a requirement: checkRequirementBlock made sure that
\* exactly one of matchName and matchLabels is there
Selection(apiVersion, kind, hasName, match) ==
    [nil |-> FALSE, apiVersion |-> apiVersion, kind |-> kind, hasName |-> hasName,
     match |-> match]

NilSelector == [nil |-> TRUE]
Selector(s) == [nil |-> FALSE, hasName |-> s.hasName]

\* selectionToSelector before its deferred function: [out, ds]
selectorOf(requirementName, s) ==
    LET a == EvalSel(s.apiVersion)
        k == EvalSel(s.kind)
        m == EvalSel(s.match)
    IN IF ~a.known THEN [out |-> NilSelector, ds |-> DowngradeDiags(a.ds)]
       ELSE IF s.apiVersion.t # "string"
       THEN [out |-> NilSelector,
             ds |-> <<Diag(DiagError, "api version in requirement selector was not a string", requirementName)>>]
       ELSE IF ~k.known THEN [out |-> NilSelector, ds |-> DowngradeDiags(k.ds)]
       ELSE IF s.kind.t # "string"
       THEN [out |-> NilSelector,
             ds |-> <<Diag(DiagError, "kind in requirement selector was not a string", requirementName)>>]
       ELSE IF ~m.known THEN [out |-> NilSelector, ds |-> DowngradeDiags(m.ds)]
       ELSE IF s.hasName /\ s.match.t # "string"
       THEN [out |-> NilSelector,
             ds |-> <<Diag(DiagError, "matchName in requirement selector was not a string", requirementName)>>]
       ELSE IF ~s.hasName /\ s.match.t # "object"
       THEN [out |-> NilSelector,
             ds |-> <<Diag(DiagError, "matchLabels in requirement selector was not an object", requirementName)>>]
       ELSE [out |-> Selector(s), ds |-> <<>>]

\* Evaluator.selectionToSelector: [e, out, ds]; the deferred function
\* records the discard of a selector that is nil without an error
selectionToSelector(E, requirementName, s) ==
    LET r == selectorOf(requirementName, s) IN
    [e |-> IF r.out.nil /\ ~HasErrors(r.ds)
           THEN discard(E, DiscardItem(discardTypeRequirement, discardReasonIncomplete, requirementName))
           ELSE E,
     out |-> r.out, ds |-> r.ds]

\* processRequirement, line 96: the test that guards the installation of
\* the selector is made on the selection, which is never nil here
SelectorGuard(sel, selector) == ~sel.nil

ErrMultipleRequirements == "multiple requirements with name"

\* Evaluator.processRequirement: [e, ds, panic]
processRequirement(E, block) ==
    LET name == block.Label IN
    IF name \in DOMAIN E.requirements
    THEN [e |-> E, ds |-> <<Diag(DiagError, ErrMultipleRequirements, name)>>, panic |-> FALSE]
    ELSE
      LET c == evaluateCondition(E, block.condition, discardTypeRequirement, name) IN
      IF c.panic THEN [e |-> c.e, ds |-> <<>>, panic |-> TRUE]
      ELSE IF HasErrors(c.ds) THEN [e |-> c.e, ds |-> c.ds, panic |-> FALSE]
      ELSE IF ~c.cond THEN [e |-> c.e, ds |-> c.ds, panic |-> FALSE]
      ELSE
        LET r == selectionToSelector(c.e, name, block.select) IN
        IF HasErrors(r.ds) THEN [e |-> r.e, ds |-> r.ds, panic |-> FALSE]
        ELSE IF SelectorGuard(block.select, r.out)
        THEN [e |-> [r.e EXCEPT !.requirements = Put(@, name, r.out)],
              ds |-> c.ds \o r.ds, panic |-> FALSE]
        ELSE [e |-> r.e, ds |-> c.ds \o r.ds, panic |-> FALSE]

-----------------------------------------------------------------------------
(* Composite blocks: composite.go *)

\* a string value: its characters
Str(chars) == [t |-> "string", s |-> chars]

\* the digits of the standard base64 alphabet the model's strings use
B64Digit == ("A" :> 0) @@ ("E" :> 4) @@ ("Q" :> 16) @@ ("U" :> 20)

ErrCorruptInput == [err |-> TRUE, bytes |-> <<>>]

\* the quanta of base64.StdEncoding.DecodeString: four digits give three
\* bytes; the last quantum may end in one or two padding characters
RECURSIVE decodeQuanta(_)
decodeQuanta(str) ==
    IF str = <<>> THEN [err |-> FALSE, bytes |-> <<>>]
    ELSE
      LET q == SubSeq(str, 1, 4)
          rest == SubSeq(str, 5, Len(str))
          digit(c) == c \in DOMAIN B64Digit
          v(n) == B64Digit[q[n]]
          b1 == (v(1) * 4 + (v(2) \div 16)) % 256
          b2 == ((v(2) % 16) * 16 + (v(3) \div 4)) % 256
          b3 == ((v(3) % 4) * 64 + v(4)) % 256
      IN IF digit(q[1]) /\ digit(q[2]) /\ digit(q[3]) /\ digit(q[4])
         THEN LET r == decodeQuanta(rest) IN
              IF r.err THEN r ELSE [err |-> FALSE, bytes |-> <<b1, b2, b3>> \o r.bytes]
         ELSE IF rest = <<>> /\ digit(q[1]) /\ digit(q[2]) /\ digit(q[3]) /\ q[4] = "="
         THEN [err |-> FALSE, bytes |-> <<b1, b2>>]
         ELSE IF rest = <<>> /\ digit(q[1]) /\ digit(q[2]) /\ q[3] = "=" /\ q[4] = "="
         THEN [err |-> FALSE, bytes |-> <<b1>>]
         ELSE ErrCorruptInput

\* base64.StdEncoding.DecodeString: [err, bytes]
DecodeString(str) ==
    IF Len(str) % 4 # 0 THEN ErrCorruptInput ELSE decodeQuanta(str)

\* the body attribute of a composite block, by what its expression
\* evaluates to: a wholly known object with the attributes m, a value that
\* is not wholly known, or an error diagnostic
AttrsObject(m) == [k |-> "object", m |-> m]
AttrsUnknown == [k |-> "unknown", m |-> EmptyMap]
AttrsBadRef == [k |-> "badref", m |-> EmptyMap]

NilObject == [nil |-> TRUE, m |-> EmptyMap]

\* mapDiagnosticSeverity
mapDiagnosticSeverity(ds, src, dst) ==
    [i \in 1..Len(ds) |-> IF ds[i].Severity = src THEN [ds[i] EXCEPT !.Severity = dst] ELSE ds[i]]

\* Evaluator.attributesToValueMap: [e, values, ds]
attributesToValueMap(E, expr, eType) ==
    LET ds == IF expr.k = "badref" THEN <<Diag(DiagError, "Unsupported attribute", "")>> ELSE <<>> IN
    IF HasErrors(ds) \/ expr.k # "object"
    THEN [e |-> discard(E, DiscardItem(eType, discardReasonIncomplete, "")),
          values |-> NilObject,
          ds |-> mapDiagnosticSeverity(ds, DiagError, DiagWarning)]
    ELSE [e |-> E, values |-> [nil |-> FALSE, m |-> expr.m], ds |-> <<>>]

\* Evaluator.addStatus: [e, ds]
addStatus(E, attrs) ==
    LET r == attributesToValueMap(E, attrs, discardTypeStatus) IN
    IF r.values.nil THEN [e |-> r.e, ds |-> r.ds]
    ELSE [e |-> [r.e EXCEPT !.compositeStatuses = Append(@, r.values.m)], ds |-> r.ds]

ErrNotString == "connection key was not a string"
WarnNotBase64 == "connection secret key not in base64 format"

NotStringWarning(name) == Diag(DiagWarning, ErrNotString, name)

\* addConnectionDetails, lines 60-63: the diagnostic for a value that is not
\* a string
NotStringDiag(name) == Diag(DiagError, ErrNotString, name)

\* addConnectionDetails, lines 57-87: the loop over the keys of out, from
\* the k-th of ord on; st is [e, ds, values, hasDiscards]
RECURSIVE connectionKeys(_, _, _, _)
connectionKeys(st, out, ord, k) ==
    IF k > Len(ord) THEN st
    ELSE
      LET name == ord[k]
          v == out[name]
      IN IF TypeOf(v) # "string"
         THEN connectionKeys([st EXCEPT !.ds = Append(@, NotStringDiag(name))], out, ord, k + 1)
         ELSE LET b == DecodeString(v.s) IN
              IF b.err
              THEN connectionKeys(
                     [st EXCEPT !.e = discard(@, DiscardItem(discardTypeConnection, discardReasonBadSecret, name)),
                                !.ds = Append(@, Diag(DiagWarning, WarnNotBase64, name)),
                                !.hasDiscards = TRUE],
                     out, ord, k + 1)
              ELSE connectionKeys([st EXCEPT !.values = Put(@, name, b.bytes)], out, ord, k + 1)

AppendAlways(hasDiscards, ds) == FALSE

\* addConnectionDetails, line 88: nothing is appended
KeepNothing(hasDiscards, ds) == hasDiscards \/ HasErrors(ds)

\* Evaluator.addConnectionDetails: [e, ds]; ord is the order in which the
\* range over out visits its keys
addConnectionDetails(E, attrs, ord) ==
    LET r == attributesToValueMap(E, attrs, discardTypeConnection) IN
    IF r.values.nil THEN [e |-> r.e, ds |-> r.ds]
    ELSE
      LET st == connectionKeys([e |-> r.e, ds |-> r.ds, values |-> EmptyMap, hasDiscards |-> FALSE],
                               r.values.m, ord, 1)
      IN IF KeepNothing(st.hasDiscards, st.ds)
         THEN [e |-> st.e, ds |-> st.ds]
         ELSE [e |-> [st.e EXCEPT !.compositeConnections = Append(@, st.values)], ds |-> st.ds]

\* Evaluator.processComposite: [e, ds]
processComposite(E, block, ord) ==
    CASE block.Label = blockLabelStatus     -> addStatus(E, block.body)
      [] block.Label = blockLabelConnection -> addConnectionDetails(E, block.body, ord)
      [] OTHER -> [e |-> E, ds |-> <<Diag(DiagError, "invalid composite label", block.Label)>>]

\* unifyBytes: [val, err]
unifyBytes(inputs) ==
    LET keys == UNION { DOMAIN inputs[n] : n \in 1..Len(inputs) }
        firstWith(k) == CHOOSE n \in 1..Len(inputs) :
                       /\ k \in DOMAIN inputs[n]
                       /\ \A j \in 1..(n - 1) : k \notin DOMAIN inputs[j]
    IN IF \E n, j \in 1..Len(inputs) :
            \E k \in DOMAIN inputs[n] \cap DOMAIN inputs[j] : inputs[n][k] # inputs[j][k]
       THEN [val |-> EmptyMap, err |-> "values for key not equal"]
       ELSE [val |-> [k \in keys |-> inputs[firstWith(k)][k]], err |-> ""]

-----------------------------------------------------------------------------
(* Response assembly: toResponse and addDiagnosticsInfo of eval.go *)

NilResponse == [nil |-> TRUE]

Condition(type, status, reason) == [Type |-> type, Status |-> status, Reason |-> reason]

IncompleteDiscards(E) ==
    SelectSeq(E.discards, LAMBDA di : di.Reason # discardReasonUserCondition)

Warnings(ds) == SelectSeq(ds, LAMBDA d : d.Severity = DiagWarning)

\* toResponse: [res, err]; err is "" when a response is returned
toResponse(E, ds, ord) ==
    LET st == unify(E.compositeStatuses, ord)
        cx == unify(E.contexts, ord)
        cd == unifyBytes(E.compositeConnections)
        results == IncompleteDiscards(E)
        fullyResolved ==
            IF Len(results) > 0
            THEN Condition("FullyResolved", "FALSE", "IncompleteItemsPresent")
            ELSE Condition("FullyResolved", "TRUE", "AllItemsProcessed")
        hclDiagnostics ==
            IF Len(Warnings(ds)) > 0
            THEN Condition("HclDiagnostics", "FALSE", "Eval")
            ELSE Condition("HclDiagnostics", "TRUE", "Eval")
    IN IF Len(E.compositeStatuses) > 0 /\ st.err # ""
       THEN [res |-> NilResponse, err |-> "unify composite status", diags |-> ds]
       ELSE IF Len(E.compositeConnections) > 0 /\ cd.err # ""
       THEN [res |-> NilResponse, err |-> "unify composite connection", diags |-> ds]
       ELSE IF Len(E.contexts) > 0 /\ cx.err # ""
       THEN [res |-> NilResponse, err |-> "unify context", diags |-> ds]
       ELSE IF \E name \in DOMAIN E.ready : name \notin DOMAIN E.desiredResources
       THEN [res |-> NilResponse, err |-> "panic", diags |-> ds]
       ELSE [res |-> [ Desired |-> [ name \in DOMAIN E.desiredResources |->
                                       [Resource |-> E.desiredResources[name],
                                        Ready |-> IF name \in DOMAIN E.ready
                                                  THEN E.ready[name] ELSE "READY_UNSPECIFIED"] ],
                       Status |-> st.val,
                       ConnectionDetails |-> cd.val,
                       Requirements |-> E.requirements,
                       Context |-> cx.val,
                       Results |-> results,
                       Warnings |-> Warnings(ds),
                       Conditions |-> <<fullyResolved, hclDiagnostics>> ],
             err |-> "", diags |-> ds]

\* what doEval returns when a processor failed: no response and the diagnostics
Failed(ds) == [res |-> NilResponse, err |-> "diagnostics", diags |-> ds]

\* the status of the FullyResolved condition of a response
FullyResolved(res) == res.Conditions[1].Status

\* nothing returned yet
NoResult == [res |-> NilResponse, err |-> "", diags |-> <<>>]


-----------------------------------------------------------------------------
(* Eval: doEval and processGroup as a state machine *)

NoRequest == [observed |-> EmptyMap]
NoContext == [resource |-> EmptyMap, connection |-> EmptyMap,
              resources |-> EmptyMap, connections |-> EmptyMap]
NoLoop == [iters |-> <<>>, i |-> 0]
Idle == "idle"

\* the visiting orders of the keys of status and context objects
KeyOrders == { <<"a", "b", "x", "y">>, <<"y", "x", "b", "a">> }

othersIdle ==
    lsrc = Idle /\ lout = Idle /\ uin = Idle /\ uout = Idle /\ ilast = Idle /\ alast = Idle
othersUnchanged == UNCHANGED <<lsrc, lout, uin, uout, ilast, alast>>

\* the variables of Eval before Eval is called
EvalInit ==
    /\ pc = "new"
    /\ in = NoRequest
    /\ ctx = NoContext
    /\ files = <<>>
    /\ bi = 0
    /\ e = NewEvaluator
    /\ diags = <<>>
    /\ curDiags = <<>>
    /\ calls = <<>>
    /\ loop = NoLoop
    /\ response = NoResult
    /\ run = 1
    /\ first = NoResult

Init ==
    /\ EvalInit
    /\ inv = newInvoker
    /\ othersIdle

\* Eval(in, files...): the files are merged, the functions loaded and the
\* request turned into the lookup tables (doEval, lines 35-50)
Eval(req, src) ==
    /\ pc = "new"
    /\ in' = req
    /\ files' = src
    /\ \E baseNameMap \in trackBaseNames(req.observed) :
         LET v == makeVars(e, req, baseNameMap) IN
         /\ e' = v.e
         /\ ctx' = v.ctx
    /\ pc' = "blocks"
    /\ UNCHANGED <<bi, inv, diags, curDiags, calls, loop, response, run, first>>
    /\ othersUnchanged

\* the block processGroup is at
CurrentBlock == files[bi + 1]

BlockContinues(ds) ==
    /\ curDiags' = ds
    /\ diags' = diags \o ds
    /\ pc' = "blocks"
    /\ response' = response
    /\ bi' = bi + 1

\* processGroup, lines 65-68, and doEval, lines 53-57: the diagnostics of
\* the block are added, and an error ends the run without a response
BlockReturns(ds) ==
    /\ curDiags' = ds
    /\ diags' = diags \o ds
    /\ IF HasErrors(ds)
       THEN /\ pc' = "failed"
            /\ response' = Failed(diags \o ds)
            /\ bi' = bi
       ELSE /\ pc' = "blocks"
            /\ response' = response
            /\ bi' = bi + 1

\* a panic in a processor: nothing recovers it, the process ends and the
\* host gets no response
Panics ==
    /\ pc' = "failed"
    /\ response' = [res |-> NilResponse, err |-> "panic", diags |-> diags]
    /\ UNCHANGED <<diags, curDiags, bi>>

\* processResource: one resource block
ProcessResource ==
    /\ pc = "blocks"
    /\ bi < Len(files)
    /\ CurrentBlock.Type = blockResource
    /\ LET r == addResource(e, inv, NoEach, CurrentBlock.Label, CurrentBlock, NoAnnotations) IN
         /\ e' = r.e
         /\ inv' = r.inv
         /\ calls' = Append(calls, CurrentBlock.Label)
         /\ IF r.panic THEN Panics ELSE BlockReturns(r.ds)
    /\ UNCHANGED <<in, ctx, files, loop, run, first>>
    /\ othersUnchanged

\* processResources up to the loop over the iterations (lines 86-185)
ProcessResources ==
    /\ pc = "blocks"
    /\ bi < Len(files)
    /\ CurrentBlock.Type = blockResources
    /\ LET c == evaluateCondition(e, CurrentBlock.condition, discardTypeResourceList, CurrentBlock.Label) IN
         /\ e' = c.e
         /\ IF c.panic
            THEN /\ Panics
                 /\ loop' = loop
            ELSE IF HasErrors(c.ds)
            THEN /\ BlockReturns(c.ds \o <<Diag(DiagError, "unable to evaluate condition for resource collection", CurrentBlock.Label)>>)
                 /\ loop' = loop
            ELSE IF ~c.cond
            THEN /\ BlockReturns(c.ds)
                 /\ loop' = loop
            ELSE \E order \in IterationOrders(CurrentBlock.for_each) :
                   LET it == extractIterations(CurrentBlock.for_each, order) IN
                   IF it.err
                   THEN /\ BlockReturns(c.ds \o <<Diag(DiagError, "unable to extract iterations for resource collection", CurrentBlock.Label)>>)
                        /\ loop' = loop
                   ELSE /\ pc' = "iter"
                        /\ loop' = [iters |-> it.iters, i |-> 0]
                        /\ curDiags' = c.ds
                        /\ UNCHANGED <<diags, response, bi>>
    /\ UNCHANGED <<in, ctx, files, inv, calls, run, first>>
    /\ othersUnchanged

\* the template block of a resources block: it has the body and, by
\* templateSchema, no condition
templateContent(block) == [block EXCEPT !.condition = "none"]

\* processResources, lines 188-223: one iteration of the loop; after the
\* last one the block returns (lines 225-239)
ProcessIteration ==
    /\ pc = "iter"
    /\ LET iter == loop.iters[loop.i + 1]
           name == EvalName(CurrentBlock.name, CurrentBlock.Label, iter)
           r == addResource(e, inv, iter, name, templateContent(CurrentBlock),
                            collectionAnnotations(CurrentBlock.Label, loop.i))
       IN /\ e' = r.e
          /\ inv' = r.inv
          /\ calls' = Append(calls, name)
          /\ IF HasErrors(r.ds) \/ loop.i + 1 = Len(loop.iters)
             THEN /\ BlockReturns(curDiags \o r.ds)
                  /\ loop' = NoLoop
             ELSE /\ curDiags' = curDiags \o r.ds
                  /\ loop' = [loop EXCEPT !.i = loop.i + 1]
                  /\ UNCHANGED <<pc, diags, response, bi>>
    /\ UNCHANGED <<in, ctx, files, run, first>>
    /\ othersUnchanged

\* doEval, lines 59-65: every block is processed, the response is assembled
ToResponse ==
    /\ pc = "blocks"
    /\ bi = Len(files)
    /\ \E ord \in KeyOrders :
         LET r == toResponse(e, diags, ord) IN
         /\ response' = r
         /\ pc' = IF r.err = "" THEN "done" ELSE "failed"
    /\ UNCHANGED <<in, ctx, files, bi, e, inv, diags, curDiags, calls, loop, run, first>>
    /\ othersUnchanged

\* the host calls Eval with a request and files
EvalCalled == pc = "new" /\ \E req \in Requests, src \in Sources : Eval(req, src)

Next ==
    \/ EvalCalled
    \/ ProcessResource
    \/ ProcessResources
    \/ ProcessIteration
    \/ ToResponse

Spec == Init /\ [][Next]_vars

\* The host calls the function again with the same request and the same
\* files: a fresh evaluator and a fresh function processor run doEval again.
Rerun ==
    /\ pc \in {"done", "failed"}
    /\ run = 1
    /\ first' = response
    /\ run' = 2
    /\ \E baseNameMap \in trackBaseNames(in.observed) :
         LET v == makeVars(NewEvaluator, in, baseNameMap) IN
         /\ e' = v.e
         /\ ctx' = v.ctx
    /\ inv' = newInvoker
    /\ pc' = "blocks"
    /\ bi' = 0
    /\ diags' = <<>>
    /\ curDiags' = <<>>
    /\ calls' = <<>>
    /\ loop' = NoLoop
    /\ response' = NoResult
    /\ UNCHANGED <<in, files>>
    /\ othersUnchanged

NextTwice == Next \/ Rerun

SpecTwice == Init /\ [][NextTwice]_vars

-----------------------------------------------------------------------------
(* invoke calls, step by step *)

\* ilast is [phase, start, frames, nest, err]: start is the counter when the
\* outermost call was made, frames the calls that passed the depth check and
\* have not returned, nest the number of nested calls made (the rejected one
\* included), err the error being returned.
InitInvoke ==
    /\ EvalInit
    /\ inv = newInvoker
    /\ ilast = [phase |-> "idle", start |-> 0, frames |-> 0, nest |-> 0, err |-> ""]
    /\ lsrc = Idle /\ lout = Idle /\ uin = Idle /\ uout = Idle /\ alast = Idle

\* the frames of the calls in progress
Frames == [depth |-> inv.depth, frames |-> ilast.frames, err |-> ilast.err]

InvokeStep(x, phase, start, nest) ==
    /\ inv' = [depth |-> x.depth]
    /\ ilast' = [phase |-> phase, start |-> start, frames |-> x.frames,
                 nest |-> nest, err |-> x.err]
    /\ UNCHANGED evalVars
    /\ UNCHANGED <<lsrc, lout, uin, uout, alast>>

\* an expression calls invoke while no call is in progress
InvokeCall ==
    /\ ilast.phase = "idle" \/ (ilast.phase = "return" /\ ilast.frames = 0)
    /\ inv.depth <= MaxLeak
    /\ LET x == invokeEnter(NoFrames(inv)) IN
         InvokeStep(x, IF x.err = "" THEN "body" ELSE "return", inv.depth, 1)

\* the body of the innermost function calls invoke
InvokeNested ==
    /\ ilast.phase = "body"
    /\ LET x == invokeEnter(Frames) IN
         InvokeStep(x, IF x.err = "" THEN "body" ELSE "return", ilast.start, ilast.nest + 1)

\* the body of the innermost function yields a value without calling invoke
InvokeBody ==
    /\ ilast.phase = "body"
    /\ InvokeStep(Frames, "return", ilast.start, ilast.nest)

\* the errors of a call that passed the depth check: invoker.invoke lines
\* 106 and 110, UserFunction.invoke lines 22, 30, 40 and 44
InvokeErrors ==
    { "user function not found", "arguments to user function is not an object",
      "invalid argument", "argument expected but not supplied",
      "locals of the function", "body of the function" }

\* the innermost call in progress fails after the depth check
InvokeFails ==
    /\ ilast.phase = "body"
    /\ \E err \in InvokeErrors :
         InvokeStep([Frames EXCEPT !.err = err], "return", ilast.start, ilast.nest)

\* the innermost call in progress returns to its caller
InvokeReturn ==
    /\ ilast.phase = "return"
    /\ ilast.frames > 0
    /\ InvokeStep(invokeExit(Frames), "return", ilast.start, ilast.nest)

NextInvoke == InvokeCall \/ InvokeNested \/ InvokeBody \/ InvokeFails \/ InvokeReturn

SpecInvoke == InitInvoke /\ [][NextInvoke]_vars

\* C9: a chain of nested invoke calls that starts with the counter at 0 is
\* not rejected for depth when its nesting depth is at most 100, and is
\* rejected with 'max depth 100 exceeded' when its nesting depth exceeds 100.
C9_BoundIs100 ==
    (ilast.phase # "idle" /\ ilast.start = 0) =>
        /\ ilast.nest <= maxDepth => ilast.err # ErrMaxDepth
        /\ ilast.nest > maxDepth => ilast.err = ErrMaxDepth

\* the outermost invoke call has returned
InvokeReturned == ilast.phase = "return" /\ ilast.frames = 0

\* C25: after an invoke call has returned, with a value or with any error
\* (function not found, bad arguments, body error, max depth exceeded), the
\* depth counter equals its value just before the call.
C25_DepthRestored == InvokeReturned => inv.depth = ilast.start

\* the same for the calls that did not fail the depth check
C25_RestoredUnlessRejected ==
    (InvokeReturned /\ ilast.err # ErrMaxDepth) => inv.depth = ilast.start

-----------------------------------------------------------------------------
(* unify, applied to bounded inputs *)

InnerObjects ==
    { m \in UNION { [D -> {Num(1), Num(2)}] : D \in SUBSET {"x", "y"} } :
        "y" \in DOMAIN m => m["y"] = Num(1) }

ValuesOfA == {Num(1), Null} \cup { Obj(m) : m \in InnerObjects }

\* the status (or context) objects of the model
Objects ==
    { m \in UNION { [D -> ValuesOfA \cup {Num(2)}] : D \in SUBSET {"a", "b"} } :
        /\ "a" \in DOMAIN m => m["a"] \in ValuesOfA
        /\ "b" \in DOMAIN m => m["b"] = Num(1) }

UnifyInputs == UNION { [1..n -> Objects] : n \in 1..MaxInputs }

\* unify has not been called
NotUnified == [called |-> FALSE]

InitUnify ==
    /\ EvalInit
    /\ inv = newInvoker
    /\ uin \in UnifyInputs
    /\ uout = NotUnified
    /\ lsrc = Idle /\ lout = Idle /\ ilast = Idle /\ alast = Idle

\* unify(uin...)
Unify(ord) ==
    /\ uout = NotUnified
    /\ uout' = unify(uin, ord)
    /\ UNCHANGED evalVars
    /\ UNCHANGED <<inv, uin, lsrc, lout, ilast, alast>>

NextUnify == \E ord \in KeyOrders : Unify(ord)

SpecUnify == InitUnify /\ [][NextUnify]_vars

\* the dotted paths at which the values v and w, both at path, conflict:
\* they are not both objects and differ, or they are objects and their
\* values of a common key conflict
RECURSIVE ConflictPaths(_, _, _)
ConflictPaths(path, v, w) ==
    IF TypeOf(v) = "map" /\ TypeOf(w) = "map"
    THEN UNION { ConflictPaths(JoinPath(path, k), v.m[k], w.m[k]) :
                   k \in DOMAIN v.m \cap DOMAIN w.m }
    ELSE IF v # w THEN {path} ELSE {}

AllConflictPaths(inputs) ==
    UNION { ConflictPaths("", Obj(inputs[i]), Obj(inputs[j])) :
              i \in 1..Len(inputs), j \in 1..Len(inputs) }

\* the deep merge of maps that do not conflict
RECURSIVE DeepMerge(_)
DeepMerge(maps) ==
    [ k \in UNION { DOMAIN m : m \in maps } |->
        LET vs == { m[k] : m \in { mm \in maps : k \in DOMAIN mm } } IN
        IF \A v \in vs : TypeOf(v) = "map"
        THEN Obj(DeepMerge({ v.m : v \in vs }))
        ELSE CHOOSE v \in vs : TRUE ]

\* C8: unify succeeds exactly when no key path has conflicting values in two
\* inputs; the result is then the deep merge of the inputs, and otherwise
\* the error names the dotted path of a conflicting key.
C8_Unify ==
    uout # NotUnified =>
        IF AllConflictPaths(uin) = {}
        THEN uout.err = "" /\ uout.val = DeepMerge({ uin[i] : i \in 1..Len(uin) })
        ELSE uout.err # "" /\ uout.path \in AllConflictPaths(uin)

\* C8 witness: three inputs were merged below the key a
C8_Witness ==
    /\ uout # NotUnified
    /\ Len(uin) = 3
    /\ uout.err = ""
    /\ uin[1] = [a |-> Obj([x |-> Num(2)])]
    /\ uin[3] = [a |-> Obj([y |-> Num(1)]), b |-> Num(1)]
    /\ uout.val = [a |-> Obj([x |-> Num(2), y |-> Num(1)]), b |-> Num(1)]

-----------------------------------------------------------------------------
(* Locals: the Processor of locals.go *)

Names == {"a", "b", "c"}

\* A local is [k, n, deps]: deps are the declared locals its expression
\* refers to, in the order of the expression (exprDeps.deps); its expression
\* is a literal combined with the values of deps (k = "lit"), a chain of n
\* nested invoke calls (k = "invoke"), a call of a function that does not
\* exist (k = "badcall") or a value of the request that is not known yet
\* (k = "unknown").
Local(k, n, deps) == [k |-> k, n |-> n, deps |-> deps]

DepSeqs ==
    { d \in UNION { [1..n -> Names] : n \in 0..MaxRefs } :
        \A i, j \in 1..Len(d) : i # j => d[i] # d[j] }

Locals ==
    { Local("lit", 0, d) : d \in DepSeqs }
    \cup { Local("invoke", maxDepth - 1, <<>>), Local("invoke", maxDepth + 1, <<>>),
           Local("badcall", 0, <<>>), Local("unknown", 0, <<>>) }

\* the locals declared in the blocks of one scope (the map built by
\* evaluate, lines 57-68, after computeDeps)
LocalSources == [Names -> Locals]

CycleFound == "cycle found"
ErrUnknownFunction == "Call to unknown function"

CycleWholePath(path, index, name) == Append(path, name)

\* evalPath.push, line 130: the path reported for a cycle
CycleSubPath(path, index, name) == Append(SubSeq(path, index, Len(path)), name)

\* evalPath.push: [err, path]
push(path, name) ==
    IF \E index \in 1..Len(path) : path[index] = name
    THEN LET index == CHOOSE k \in 1..Len(path) : path[k] = name IN
         [err |-> TRUE, path |-> CycleSubPath(path, index, name)]
    ELSE [err |-> FALSE, path |-> Append(path, name)]

\* evalPath.pop
pop(path) == SubSeq(path, 1, Len(path) - 1)

RECURSIVE SumValues(_, _)
SumValues(variables, deps) ==
    IF deps = <<>> THEN 0
    ELSE variables[Head(deps)].v + SumValues(variables, Tail(deps))

\* info.expr.Value(c.ctx) for a local: [val, ds, inv]
EvalLocalExpr(info, variables, i) ==
    IF info.k = "invoke"
    THEN LET r == invokeChain(i, info.n) IN
         [val |-> IF r.err = "" THEN Known(1) ELSE Unknown,
          ds |-> IF r.err = "" THEN <<>> ELSE <<Diag(DiagError, r.err, <<>>)>>,
          inv |-> r.inv]
    ELSE IF info.k = "unknown"
    THEN [val |-> Unknown, ds |-> <<>>, inv |-> i]
    ELSE IF info.k = "badcall"
    THEN [val |-> Unknown, ds |-> <<Diag(DiagError, ErrUnknownFunction, <<>>)>>, inv |-> i]
    ELSE IF \E k \in 1..Len(info.deps) : info.deps[k] \notin DOMAIN variables
    THEN [val |-> Unknown, ds |-> <<Diag(DiagError, "Unknown variable", <<>>)>>, inv |-> i]
    ELSE IF \E k \in 1..Len(info.deps) : ~IsWhollyKnown(variables[info.deps[k]])
    THEN [val |-> Unknown, ds |-> <<>>, inv |-> i]
    ELSE [val |-> Known(1 + SumValues(variables, info.deps)), ds |-> <<>>, inv |-> i]

\* computeDeps, lines 109-114: the deps of a local are the names its
\* expression refers to that are locals of the scope
computeDeps(locals, name) ==
    SelectSeq(locals[name].deps, LAMBDA reference : reference \in DOMAIN locals)

RECURSIVE evalLocal(_, _, _)
RECURSIVE evalDeps(_, _, _, _)

\* Processor.evalLocal: c is the localContext with the invoker,
\* [variables, seen, remaining, inv, trace]; the result is [c, ds].  trace
\* is the record of the calls of info.expr.Value made so far: the local
\* evaluated and the names assigned in c.ctx.Variables at that time.
evalLocal(locals, c, name) ==
    IF name \notin c.remaining THEN [c |-> c, ds |-> <<>>]
    ELSE
      LET p == push(c.seen, name) IN
      IF p.err
      THEN [c |-> c, ds |-> <<Diag(DiagError, CycleFound, p.path)>>]
      ELSE
        LET d == evalDeps(locals, [c EXCEPT !.seen = p.path], computeDeps(locals, name), 1)
            deferred(cc) == [cc EXCEPT !.seen = pop(cc.seen),
                                       !.remaining = cc.remaining \ {name}]
        IN IF HasErrors(d.ds) THEN [c |-> deferred(d.c), ds |-> d.ds]
           ELSE LET r == EvalLocalExpr(locals[name], d.c.variables, d.c.inv) IN
                [c |-> deferred([d.c EXCEPT !.variables = Put(d.c.variables, name, r.val),
                                            !.inv = r.inv,
                                            !.trace = Append(d.c.trace, [name |-> name,
                                                                         assigned |-> DOMAIN d.c.variables])]),
                 ds |-> d.ds \o DowngradeDiags(r.ds)]

evalDepsNone(locals, c, deps, k) == [c |-> c, ds |-> <<>>]

\* evalLocal, lines 182-186: the loop over info.deps, from the k-th on
evalDeps(locals, c, deps, k) ==
    IF k > Len(deps) THEN [c |-> c, ds |-> <<>>]
    ELSE IF deps[k] \in c.remaining
    THEN LET r == evalLocal(locals, c, deps[k])
             rest == evalDeps(locals, r.c, deps, k + 1)
         IN [c |-> rest.c, ds |-> r.ds \o rest.ds]
    ELSE evalDeps(locals, c, deps, k + 1)

\* Processor.eval: order is the order in which the range over locals visits
\* the names; every visit starts with an empty path
RECURSIVE eval(_, _, _, _)
eval(locals, c, order, k) ==
    IF k > Len(order) THEN [c |-> c, ds |-> <<>>]
    ELSE LET r == evalLocal(locals, [c EXCEPT !.seen = <<>>], order[k])
             rest == eval(locals, r.c, order, k + 1)
         IN [c |-> rest.c, ds |-> r.ds \o rest.ds]

\* Processor.Process: [ok, variables, diags, inv, trace]; ok is FALSE when
\* the diagnostics have errors
Process(locals, i, order) ==
    LET r == eval(locals,
                  [variables |-> EmptyMap, seen |-> <<>>, remaining |-> DOMAIN locals, inv |-> i,
                   trace |-> <<>>],
                  order, 1)
    IN [ok |-> ~HasErrors(r.ds), variables |-> r.c.variables, diags |-> r.ds, inv |-> r.c.inv,
        trace |-> r.c.trace]

InitLocals ==
    /\ EvalInit
    /\ inv = newInvoker
    /\ lsrc \in LocalSources
    /\ lout = <<>>
    /\ uin = Idle /\ uout = Idle /\ ilast = Idle /\ alast = Idle

\* The locals of lsrc are processed, by an evaluation of its own (a new
\* invoker); order is the order the range over the map takes this time.
\* lout holds the results of the evaluations made.
ProcessLocals(order) ==
    /\ Len(lout) < 2
    /\ LET r == Process(lsrc, newInvoker, order) IN
         /\ lout' = Append(lout, [ok |-> r.ok, variables |-> r.variables, diags |-> r.diags,
                                  trace |-> r.trace])
         /\ inv' = r.inv
    /\ UNCHANGED evalVars
    /\ UNCHANGED <<lsrc, uin, uout, ilast, alast>>

NextLocals == \E order \in Orders(Names) : ProcessLocals(order)

SpecLocals == InitLocals /\ [][NextLocals]_vars

\* C6: two evaluations of the same locals have the same outcome: both
\* succeed or both fail, and when they succeed every local has the same
\* value in both.
C6_OrderIndependent ==
    Len(lout) = 2 =>
        /\ lout[1].ok = lout[2].ok
        /\ lout[1].ok => lout[1].variables = lout[2].variables

\* C11: when the expression of a local calls a function that does not
\* exist, the locals processor returns an error.
C11_OtherErrorsAreFatal ==
    \A n \in 1..Len(lout) :
        ((\E k \in 1..Len(lout[n].diags) : lout[n].diags[k].Summary = ErrUnknownFunction)
            => ~lout[n].ok)

\* v1 -> v2 -> ... -> vk -> v1 along the references of the locals
IsCycle(locals, p) ==
    /\ Len(p) >= 1
    /\ \A k \in 1..Len(p) :
         p[(k % Len(p)) + 1] \in { locals[p[k]].deps[j] : j \in 1..Len(locals[p[k]].deps) }

\* the cycles of the dependency graph, each from each of its names
Cycles(locals) ==
    { p \in UNION { [1..n -> Names] : n \in 1..Cardinality(Names) } :
        /\ \A i, j \in 1..Len(p) : i # j => p[i] # p[j]
        /\ IsCycle(locals, p) }

Range(s) == { s[k] : k \in 1..Len(s) }

CycleDiags(r) == { k \in 1..Len(r.diags) : r.diags[k].Summary = CycleFound }

\* C7 as stated: for every cycle of the dependency graph, processing fails
\* with an error 'cycle found' that names every local of that cycle.
C7_EveryCycleNamed ==
    \A n \in 1..Len(lout) : \A p \in Cycles(lsrc) :
        /\ ~lout[n].ok
        /\ \E k \in CycleDiags(lout[n]) :
             /\ lout[n].diags[k].Severity = DiagError
             /\ Range(p) \subseteq Range(lout[n].diags[k].Subject)

\* C7 amended: when the dependency graph has a cycle, processing fails with
\* an error 'cycle found'; every such error names the locals of one cycle
\* of the graph, first to first; without a cycle there is no such error.
C7_SomeCycleNamed ==
    \A n \in 1..Len(lout) :
        /\ Cycles(lsrc) # {} => ~lout[n].ok /\ CycleDiags(lout[n]) # {}
        /\ \A k \in CycleDiags(lout[n]) :
             LET p == lout[n].diags[k].Subject IN
             /\ lout[n].diags[k].Severity = DiagError
             /\ Len(p) >= 2
             /\ p[1] = p[Len(p)]
             /\ pop(p) \in Cycles(lsrc)

\* C7 witness: a cycle entered from outside (a refers to b, b and c to each
\* other) was reported as the path from b to b
C7_Witness ==
    /\ Len(lout) >= 1
    /\ lsrc["a"].deps = <<"b">>
    /\ lsrc["b"].deps = <<"c">>
    /\ lsrc["c"].deps = <<"b">>
    /\ ~lout[1].ok
    /\ \E k \in CycleDiags(lout[1]) : lout[1].diags[k].Subject = <<"b", "c", "b">>

\* the positions of the trace at which the expression of name was evaluated
EvaluationsOf(r, name) == { p \in 1..Len(r.trace) : r.trace[p].name = name }

\* C30: in an evaluation of locals without a cycle, the expression of each
\* local is evaluated exactly once, and at that time every local it depends
\* on has been evaluated before and is assigned in the child environment.
C30_OnceAfterDeps ==
    Cycles(lsrc) = {} =>
        \A n \in 1..Len(lout) : \A name \in Names :
            /\ Cardinality(EvaluationsOf(lout[n], name)) = 1
            /\ \A p \in EvaluationsOf(lout[n], name) : \A dep \in Range(lsrc[name].deps) :
                 /\ dep \in lout[n].trace[p].assigned
                 /\ \E q \in EvaluationsOf(lout[n], dep) : q < p

\* a refers to b and c, b refers to c, and c, which is not known yet, was
\* evaluated first, then b, then a
C30_Witness ==
    /\ Len(lout) >= 1
    /\ lsrc["a"] = Local("lit", 0, <<"b", "c">>)
    /\ lsrc["b"] = Local("lit", 0, <<"c">>)
    /\ lsrc["c"] = Local("unknown", 0, <<>>)
    /\ [p \in 1..3 |-> lout[1].trace[p].name] = <<"c", "b", "a">>
    /\ lout[1].trace[3].assigned = {"b", "c"}
    /\ ~IsWhollyKnown(lout[1].variables["c"])

-----------------------------------------------------------------------------
(* Locals: declarations and the chain of environments *)

MaxLocalsBlocks == 2

ScopeNames == {"a", "b"}

\* the expressions of the declarations: a literal, a reference to a, a
\* reference to b, a value that is not known yet
ScopeLocals ==
    { Local("lit", 0, <<>>), Local("lit", 0, <<"a">>), Local("lit", 0, <<"b">>),
      Local("unknown", 0, <<>>) }

\* a frame of the chain of environments binds names to values: a is bound
\* in it or not
ScopeFrames == UNION { [S -> {Known(1)}] : S \in SUBSET {"a"} }

\* the environment Process is given: its own frame first, then its ancestors
Chains == UNION { [1..n -> ScopeFrames] : n \in 1..2 }

\* the attributes of one locals block (JustAttributes, line 43)
AttrsOfBlock == UNION { [S -> ScopeLocals] : S \in SUBSET ScopeNames }

\* the locals blocks of one scope (attrsList, lines 40-50)
AttrsLists == UNION { [1..n -> AttrsOfBlock] : n \in 0..MaxLocalsBlocks }

hasVariableCurrentOnly(chain, name) == name \in DOMAIN chain[1]

\* hasVariable, lines 207-216
hasVariable(chain, name) == \E k \in 1..Len(chain) : name \in DOMAIN chain[k]

\* the variables an expression sees from a chain: the nearest binding
Visible(chain) ==
    [ n \in UNION { DOMAIN chain[k] : k \in 1..Len(chain) } |->
        chain[CHOOSE k \in 1..Len(chain) :
                 n \in DOMAIN chain[k] /\ \A j \in 1..(k - 1) : n \notin DOMAIN chain[j]][n] ]

\* evaluate, lines 58-59: the declarations in the order they are visited,
\* block by block, the attributes of block k in the order orders[k]
RECURSIVE Declarations(_, _, _)
Declarations(attrsList, orders, k) ==
    IF k > Len(attrsList) THEN <<>>
    ELSE LET names == RangeKeys(attrsList[k], orders[k]) IN
         [ j \in 1..Len(names) |-> [name |-> names[j], attr |-> attrsList[k][names[j]]] ]
         \o Declarations(attrsList, orders, k + 1)

ErrDuplicateLocal == "duplicate local declaration"
ErrShadow == "attempt to shadow variable"
ErrNonExistent == "reference to non-existent variable"

\* lines 60-65: what the loop of evaluate finds at the j-th declaration
DeclarationError(chain, decls, j) ==
    IF \E m \in 1..(j - 1) : decls[m].name = decls[j].name THEN ErrDuplicateLocal
    ELSE IF hasVariable(chain, decls[j].name) THEN ErrShadow
    ELSE ""

\* computeDeps, lines 114-115: a reference that is neither a local of the
\* scope nor a variable of the chain
NonExistent(chain, locals) ==
    { reference \in UNION { Range(locals[n].deps) : n \in DOMAIN locals } :
        reference \notin DOMAIN locals /\ ~hasVariable(chain, reference) }

\* Processor.evaluate: [ok, child, frame, diags, inv]; child says whether a
\* child environment was made and frame is what it binds
evaluate(chain, attrsList, i, orders, order) ==
    LET decls == Declarations(attrsList, orders, 1)
        bad == { j \in 1..Len(decls) : DeclarationError(chain, decls, j) # "" }
        failed(summary, subject) ==
            [ok |-> FALSE, child |-> FALSE, frame |-> EmptyMap,
             diags |-> <<Diag(DiagError, summary, subject)>>, inv |-> i]
    IN IF bad # {}
       THEN LET j == CHOOSE x \in bad : \A y \in bad : x <= y IN
            failed(DeclarationError(chain, decls, j), decls[j].name)
       ELSE LET locals == [ n \in { decls[j].name : j \in 1..Len(decls) } |->
                              (CHOOSE d \in Range(decls) : d.name = n).attr ]
            IN IF DOMAIN locals = {}
               THEN [ok |-> TRUE, child |-> FALSE, frame |-> EmptyMap, diags |-> <<>>, inv |-> i]
               ELSE IF NonExistent(chain, locals) # {}
               THEN failed(ErrNonExistent, CHOOSE r \in NonExistent(chain, locals) : TRUE)
               ELSE LET r == eval(locals,
                                  [variables |-> Visible(chain), seen |-> <<>>,
                                   remaining |-> DOMAIN locals, inv |-> i, trace |-> <<>>],
                                  RangeKeys(locals, order), 1)
                    IN [ok |-> ~HasErrors(r.ds), child |-> TRUE,
                        frame |-> [ n \in DOMAIN locals \cap DOMAIN r.c.variables |-> r.c.variables[n] ],
                        diags |-> r.ds, inv |-> r.c.inv]

InitScopes ==
    /\ EvalInit
    /\ inv = newInvoker
    /\ lsrc \in [chain : Chains, attrsList : AttrsLists]
    /\ lout = <<>>
    /\ uin = Idle /\ uout = Idle /\ ilast = Idle /\ alast = Idle

\* Process is called with the chain and the locals blocks of lsrc
ProcessScope ==
    /\ lout = <<>>
    /\ \E orders \in [1..Len(lsrc.attrsList) -> Orders(ScopeNames)], order \in Orders(ScopeNames) :
         LET r == evaluate(lsrc.chain, lsrc.attrsList, newInvoker, orders, order) IN
           /\ lout' = <<[ok |-> r.ok, child |-> r.child, frame |-> r.frame, diags |-> r.diags]>>
           /\ inv' = r.inv
    /\ UNCHANGED evalVars
    /\ UNCHANGED <<lsrc, uin, uout, ilast, alast>>

NextScopes == ProcessScope

SpecScopes == InitScopes /\ [][NextScopes]_vars

\* the names declared in the k-th locals block of lsrc
DeclaredIn(k) == DOMAIN lsrc.attrsList[k]

\* a name is declared in two locals blocks of the scope
DeclaredTwice ==
    \E k, m \in 1..Len(lsrc.attrsList) : k # m /\ DeclaredIn(k) \cap DeclaredIn(m) # {}

\* a declared name is bound in the environment or in one of its ancestors
ShadowsAncestor ==
    \E k \in 1..Len(lsrc.attrsList) : \E n \in DeclaredIn(k) :
        \E f \in 1..Len(lsrc.chain) : n \in DOMAIN lsrc.chain[f]

\* the number of declarations in the blocks from the k-th on
RECURSIVE CountDeclarations(_)
CountDeclarations(k) ==
    IF k > Len(lsrc.attrsList) THEN 0
    ELSE Cardinality(DeclaredIn(k)) + CountDeclarations(k + 1)

\* C24: locals processing fails with an error when a declaration uses a
\* name bound in the environment or an ancestor of it, or a name declared
\* in another locals block of the scope; when it succeeds and makes a child
\* frame, the frame binds one name per declaration and none of them is
\* bound in the chain of ancestors.
C24_NoShadowNoDuplicate ==
    lout # <<>> =>
        /\ (DeclaredTwice \/ ShadowsAncestor) => (~lout[1].ok /\ HasErrors(lout[1].diags))
        /\ (lout[1].ok /\ lout[1].child) =>
              /\ Cardinality(DOMAIN lout[1].frame) = CountDeclarations(1)
              /\ \A n \in DOMAIN lout[1].frame :
                     \A f \in 1..Len(lsrc.chain) : n \notin DOMAIN lsrc.chain[f]

\* a is declared in two locals blocks and the processing failed with the
\* duplicate declaration error
C24_Witness ==
    /\ lout # <<>>
    /\ Len(lsrc.attrsList) = 2
    /\ "a" \in DeclaredIn(1) \cap DeclaredIn(2)
    /\ ~ShadowsAncestor
    /\ ~lout[1].ok
    /\ lout[1].diags[1].Summary = ErrDuplicateLocal

\* the locals a = b, b = c, c = a
ThreeCycle ==
    /\ lsrc["a"] = Local("lit", 0, <<"b">>)
    /\ lsrc["b"] = Local("lit", 0, <<"c">>)
    /\ lsrc["c"] = Local("lit", 0, <<"a">>)

\* C27: for the locals a = b, b = c, c = a every evaluation fails with an
\* error 'cycle found' whose path is a -> b -> c -> a, and with no
\* 'cycle found' error of another path.
C27_CyclePathFromA ==
    ThreeCycle =>
        \A n \in 1..Len(lout) :
            /\ ~lout[n].ok
            /\ CycleDiags(lout[n]) # {}
            /\ \A k \in CycleDiags(lout[n]) : lout[n].diags[k].Subject = <<"a", "b", "c", "a">>

\* the same, for a path that is the cycle from any one of its names
C27_CyclePathFromAny ==
    ThreeCycle =>
        \A n \in 1..Len(lout) :
            /\ ~lout[n].ok
            /\ Cardinality(CycleDiags(lout[n])) = 1
            /\ \A k \in CycleDiags(lout[n]) :
                 lout[n].diags[k].Subject \in
                     { <<"a", "b", "c", "a">>, <<"b", "c", "a", "b">>, <<"c", "a", "b", "c">> }

-----------------------------------------------------------------------------
(* Groups, requirement and composite blocks in Eval *)

MaxParts == 2

NoLocals == EmptyMap

\* a group block: its condition, the locals declared in it and the number
\* of blocks nested in it, which follow it in the sequence of blocks.  The
\* merged content of the files is the outermost group.
GroupBlock(cond, locals, size) ==
    [Type |-> blockGroup, Label |-> "", condition |-> cond, locals |-> locals, size |-> size]

RequirementBlock(name, cond, select) ==
    [Type |-> blockRequirement, Label |-> name, condition |-> cond, select |-> select]

CompositeBlock(label, body) ==
    [Type |-> blockComposite, Label |-> label, body |-> body]

Groups ==
    { GroupBlock(cond, NoLocals, 1) :
        cond \in {"true", "false", "string", "unknowndyn", "unknownbool"} }

PartResources ==
    { Block(blockResource, "x", "none", NoForEach, "", ExprLit),
      Block(blockResource, "x", "none", NoForEach, "", ExprUnknown),
      Block(blockResource, "x", "false", NoForEach, "", ExprLit),
      Block(blockResource, "x", "unknownbool", NoForEach, "", ExprLit),
      Block(blockResources, "c", "none", ForEachList, "default", ExprEach),
      Block(blockResources, "c", "false", ForEachList, "default", ExprEach),
      Block(blockResources, "c", "unknowndyn", ForEachList, "default", ExprEach) }

Selections ==
    { Selection(SelString, SelString, TRUE, SelString),
      Selection(SelUnknown, SelString, TRUE, SelString),
      Selection(SelString, SelUnknown, TRUE, SelString),
      Selection(SelString, SelString, TRUE, SelUnknown),
      Selection(SelString, SelString, FALSE, SelObject),
      Selection(SelString, SelString, FALSE, SelUnknown),
      Selection(SelBadRef, SelString, TRUE, SelString),
      Selection(SelNumber, SelString, TRUE, SelString) }

Requirements ==
    { RequirementBlock("r", "none", sel) : sel \in Selections }
    \cup { RequirementBlock("r", "false", Selection(SelString, SelString, TRUE, SelString)) }

\* "QQ==" and "QUE=" are base64, "QQ" (no padding) and "!!!!" are not
Secrets == { Str(<<"Q", "Q", "=", "=">>), Str(<<"Q", "U", "E", "=">>),
             Str(<<"Q", "Q">>), Str(<<"!", "!", "!", "!">>) }

ConnectionBodies ==
    { AttrsObject([k1 |-> v]) : v \in Secrets }
    \cup { AttrsObject([k1 |-> Str(<<"Q", "Q", "=", "=">>), k2 |-> v]) : v \in Secrets \cup {Num(1)} }
    \cup { AttrsObject([k1 |-> Str(<<"Q", "Q">>), k2 |-> v]) :
             v \in { Str(<<"!", "!", "!", "!">>), Num(1) } }
    \cup { AttrsUnknown }

Composites ==
    { CompositeBlock(blockLabelConnection, body) : body \in ConnectionBodies }
    \cup { CompositeBlock(blockLabelStatus, AttrsObject([a |-> Num(1)])),
           CompositeBlock(blockLabelStatus, AttrsUnknown),
           CompositeBlock(blockLabelStatus, AttrsBadRef) }

Parts == Groups \cup PartResources \cup Requirements \cup Composites

\* the locals of the outermost group
TopLocals == { NoLocals, [a |-> Local("unknown", 0, <<>>)] }

\* the blocks nested in a group are within the blocks of the group around it
WellNested(src) ==
    \A k \in 1..Len(src) :
        src[k].Type = blockGroup =>
            /\ k + src[k].size <= Len(src)
            /\ \A j \in (k + 1)..(k + src[k].size) :
                   src[j].Type = blockGroup => j + src[j].size <= k + src[k].size

\* the sources of the model with n blocks in the outermost group
GroupSources(n) ==
    { src \in { <<GroupBlock("none", l, n)>> \o parts : l \in TopLocals, parts \in [1..n -> Parts] } :
        WellNested(src) }

\* processGroup: the locals and the condition of a group, lines 22-38; the
\* blocks nested in it come next, or are skipped
ProcessGroup ==
    /\ pc = "blocks"
    /\ bi < Len(files)
    /\ CurrentBlock.Type = blockGroup
    /\ \E order \in Orders(DOMAIN CurrentBlock.locals) :
         LET l == Process(CurrentBlock.locals, inv, order)
             c == evaluateCondition(e, CurrentBlock.condition, discardTypeGroup, "")
         IN /\ inv' = l.inv
            /\ IF ~l.ok
               THEN /\ BlockReturns(l.diags)
                    /\ e' = e
               ELSE IF c.panic
               THEN /\ Panics
                    /\ e' = c.e
               ELSE IF HasErrors(c.ds)
               THEN /\ BlockReturns(l.diags \o c.ds \o <<Diag(DiagError, "unable to evaluate condition", "")>>)
                    /\ e' = c.e
               ELSE IF ~c.cond
               THEN /\ bi' = bi + 1 + CurrentBlock.size
                    /\ curDiags' = <<>>
                    /\ e' = c.e
                    /\ UNCHANGED <<pc, diags, response>>
               ELSE /\ bi' = bi + 1
                    /\ curDiags' = l.diags \o c.ds
                    /\ diags' = diags \o l.diags \o c.ds
                    /\ e' = c.e
                    /\ UNCHANGED <<pc, response>>
    /\ UNCHANGED <<in, ctx, files, calls, loop, run, first>>
    /\ othersUnchanged

\* processRequirement: one requirement block
ProcessRequirement ==
    /\ pc = "blocks"
    /\ bi < Len(files)
    /\ CurrentBlock.Type = blockRequirement
    /\ LET r == processRequirement(e, CurrentBlock) IN
         /\ e' = r.e
         /\ IF r.panic THEN Panics ELSE BlockReturns(r.ds)
    /\ UNCHANGED <<in, ctx, files, inv, calls, loop, run, first>>
    /\ othersUnchanged

\* processComposite: one composite block
ProcessComposite ==
    /\ pc = "blocks"
    /\ bi < Len(files)
    /\ CurrentBlock.Type = blockComposite
    /\ \E ord \in Orders(DOMAIN CurrentBlock.body.m) :
         LET r == processComposite(e, CurrentBlock, ord) IN
         /\ e' = r.e
         /\ BlockReturns(r.ds)
    /\ UNCHANGED <<in, ctx, files, inv, calls, loop, run, first>>
    /\ othersUnchanged

\* the host calls Eval with a request and files that have groups,
\* requirements and composite blocks
EvalGroupsCalled ==
    /\ pc = "new"
    /\ \E n \in 1..MaxParts : \E req \in Requests, src \in GroupSources(n) : Eval(req, src)

NextGroups ==
    \/ EvalGroupsCalled
    \/ ProcessGroup
    \/ ProcessRequirement
    \/ ProcessComposite
    \/ ProcessResource
    \/ ProcessResources
    \/ ProcessIteration
    \/ ToResponse

SpecGroups == Init /\ [][NextGroups]_vars

\* the block being processed is a requirement whose select block has an
\* incomplete value, and its selector is what is evaluated
IncompleteSelect ==
    /\ pc = "blocks"
    /\ bi < Len(files)
    /\ CurrentBlock.Type = blockRequirement
    /\ CurrentBlock.Label \notin DOMAIN e.requirements
    /\ CurrentBlock.condition = "none"
    /\ \E x \in {CurrentBlock.select.apiVersion, CurrentBlock.select.kind, CurrentBlock.select.match} :
         ~EvalSel(x).known

\* C12: processing a requirement whose select block has an incomplete value
\* returns no error, records one discard of type requirement with reason
\* incomplete, and leaves the requirements without an entry for its name.
C12_IncompleteRequirementSkipped ==
    [][IncompleteSelect =>
         /\ ~HasErrors(curDiags')
         /\ e'.discards = Append(e.discards,
                DiscardItem(discardTypeRequirement, discardReasonIncomplete, CurrentBlock.Label))
         /\ CurrentBlock.Label \notin DOMAIN e'.requirements]_vars

\* the block being processed is a composite connection block whose body is
\* a wholly known object
ConnectionBlock ==
    /\ pc = "blocks"
    /\ bi < Len(files)
    /\ CurrentBlock.Type = blockComposite
    /\ CurrentBlock.Label = blockLabelConnection
    /\ CurrentBlock.body.k = "object"

\* the keys of m whose values are strings that are not standard base64
BadKeys(m) == { k \in DOMAIN m : TypeOf(m[k]) = "string" /\ DecodeString(m[k].s).err }

\* the keys of m whose values are not strings
NonStringKeys(m) == { k \in DOMAIN m : TypeOf(m[k]) # "string" }

RunFailsWithError(resp) ==
    /\ resp.res = NilResponse
    /\ resp.err = "diagnostics"
    /\ HasErrors(resp.diags)

ConditionFalse ==
    /\ pc = "blocks"
    /\ bi < Len(files)
    /\ CurrentBlock.Type \in {blockGroup, blockResource, blockResources, blockRequirement}
    /\ CurrentBlock.condition = "false"
    /\ CurrentBlock.Type = blockResource => ~IsDuplicate(e, CurrentBlock.Label)
    /\ CurrentBlock.Type = blockRequirement => CurrentBlock.Label \notin DOMAIN e.requirements

\* the discard type and the number of nested blocks of a block
DiscardTypeOf(block) ==
    CASE block.Type = blockGroup       -> discardTypeGroup
      [] block.Type = blockResource    -> discardTypeResource
      [] block.Type = blockResources   -> discardTypeResourceList
      [] block.Type = blockRequirement -> discardTypeRequirement

NestedIn(block) == IF block.Type = blockGroup THEN block.size ELSE 0

\* C15: when the condition of a group, resource, resources or requirement
\* block is false, one discard with reason user-condition is recorded for
\* the block, nothing else of the evaluator changes, no error is returned
\* and processing goes on after the block and the blocks nested in it.
C15_FalseConditionOnlyDiscards ==
    [][ConditionFalse =>
         /\ e' = [e EXCEPT !.discards =
                     Append(@, DiscardItem(DiscardTypeOf(CurrentBlock), discardReasonUserCondition,
                                           CurrentBlock.Label))]
         /\ pc' = "blocks"
         /\ bi' = bi + 1 + NestedIn(CurrentBlock)
         /\ diags' = diags
         /\ loop' = loop]_vars

\* a group with a false condition and a resource nested in it were passed:
\* one discard, no desired resource, no call of addResource
C15_Witness ==
    /\ pc = "blocks"
    /\ bi = 3
    /\ Len(files) = 3
    /\ files[2] = GroupBlock("false", NoLocals, 1)
    /\ files[3] = Block(blockResource, "x", "none", NoForEach, "", ExprLit)
    /\ e.discards = <<DiscardItem(discardTypeGroup, discardReasonUserCondition, "")>>
    /\ e.desiredResources = EmptyMap
    /\ calls = <<>>

\* the block being processed has a condition that is evaluated and whose
\* value is incomplete or is not a boolean
ConditionNotKnownBool ==
    /\ pc = "blocks"
    /\ bi < Len(files)
    /\ CurrentBlock.Type \in {blockGroup, blockResource, blockResources, blockRequirement}
    /\ CurrentBlock.condition \in {"string", "unknowndyn", "unknownbool"}
    /\ CurrentBlock.Type = blockResource => ~IsDuplicate(e, CurrentBlock.Label)
    /\ CurrentBlock.Type = blockRequirement => CurrentBlock.Label \notin DOMAIN e.requirements

\* C16: a condition whose value is incomplete (an unknown boolean included)
\* or is not a boolean yields an error diagnostic and the run fails; the
\* block is not taken as enabled or disabled and no discard is recorded.
C16_ConditionMustBeKnownBool ==
    [][ConditionNotKnownBool =>
         /\ pc' = "failed"
         /\ RunFailsWithError(response')
         /\ e' = e]_vars

\* the k-th block was reached by a run that did not fail: no group around
\* it has a false condition
Processed(k) ==
    \A j \in 1..(k - 1) :
        (files[j].Type = blockGroup /\ k <= j + files[j].size) => files[j].condition \in {"none", "true"}

\* an expression of the block, other than its condition, has an incomplete
\* value when it is evaluated
HasIncompleteValue(block) ==
    CASE block.Type = blockGroup ->
            \E n \in DOMAIN block.locals : block.locals[n].k = "unknown"
      [] block.Type = blockResource ->
            block.condition \in {"none", "true"} /\ block.body.k \in {"unknown", "badref"}
      [] block.Type = blockResources ->
            block.condition \in {"none", "true"} /\ block.body.k \in {"unknown", "badref"}
      [] block.Type = blockRequirement ->
            /\ block.condition \in {"none", "true"}
            /\ \E x \in {block.select.apiVersion, block.select.kind, block.select.match} :
                   ~EvalSel(x).known
      [] block.Type = blockComposite -> block.body.k # "object"

IncompleteEncountered == \E k \in 1..Len(files) : Processed(k) /\ HasIncompleteValue(files[k])

\* C17: in the response of a successful run FullyResolved is TRUE with
\* reason AllItemsProcessed or FALSE with reason IncompleteItemsPresent, and
\* it is FALSE when an incomplete value was encountered in the run, in a
\* local as well as in a body, status, connection or selector.
C17_FullyResolvedOnlyIfComplete ==
    pc = "done" =>
        /\ response.res.Conditions[1] \in
               { Condition("FullyResolved", "TRUE", "AllItemsProcessed"),
                 Condition("FullyResolved", "FALSE", "IncompleteItemsPresent") }
        /\ IncompleteEncountered => FullyResolved(response.res) = "FALSE"

\* a block is being processed, or the next one is about to be
InBlocks == pc \in {"blocks", "iter"}

\* C26: the blocks are processed in source order; when a block returns an
\* error the run ends at that block with an error and no response, and
\* after that no block is processed and the evaluator does not change; a
\* block that returns no error, warnings or not, is followed by the
\* processing of the next block.
C26_ErrorStopsWarningsDoNot ==
    [][ /\ bi' >= bi
        /\ (InBlocks /\ HasErrors(curDiags')) =>
              /\ pc' = "failed"
              /\ bi' = bi
              /\ response'.res = NilResponse
              /\ response'.err # ""
              /\ HasErrors(response'.diags)
        /\ pc = "failed" => (pc' = "failed" /\ e' = e /\ bi' = bi /\ response' = response)
        /\ (InBlocks /\ bi < Len(files) /\ ~HasErrors(curDiags') /\ response'.err # "panic") =>
              /\ InBlocks'
              /\ pc' = "blocks" =>
                    bi' = bi + 1 + (IF CurrentBlock.Type = blockGroup /\ ConditionFalse
                                    THEN CurrentBlock.size ELSE 0)
      ]_vars

\* a connection block with a value that is not a string returned an error:
\* the run failed at it, and the resource block after it was not processed
C26_Witness ==
    /\ pc = "failed"
    /\ Len(files) = 3
    /\ bi = 1
    /\ files[2].Type = blockComposite
    /\ files[3] = Block(blockResource, "x", "none", NoForEach, "", ExprLit)
    /\ HasErrors(curDiags)
    /\ response.res = NilResponse
    /\ response.err = "diagnostics"
    /\ e.desiredResources = EmptyMap
    /\ calls = <<>>

-----------------------------------------------------------------------------
(* The order of the files *)

\* toContent, lines 79-111: the blocks of the files, file after file in the
\* order the files are given.  A file is the sequence of its blocks.
RECURSIVE makeContent(_)
makeContent(bodies) ==
    IF bodies = <<>> THEN <<>> ELSE Head(bodies) \o makeContent(Tail(bodies))

\* the same files in the order perm
Permuted(fs, perm) == [ k \in 1..Len(fs) |-> fs[perm[k]] ]

\* the blocks of the files of this part of the model: no for_each over a
\* map and no chain of invoke calls, whose outcomes vary between two runs
\* of the same files in the same order
FileBlocks == { b \in Blocks : b.for_each.t # "map" /\ b.body # ExprDeep }

\* the files given to Eval, one block in each
FileLists == UNION { [1..n -> { <<b>> : b \in FileBlocks }] : n \in 1..MaxBlocks }

EvalFilesCalled ==
    /\ pc = "new"
    /\ \E req \in Requests, fs \in FileLists : Eval(req, makeContent(fs))

\* The host calls the function again with the same request and the same
\* files in another order.
RerunPermuted ==
    /\ pc \in {"done", "failed"}
    /\ run = 1
    /\ first' = response
    /\ run' = 2
    /\ \E perm \in Orders(1..Len(files)) :
         files' = makeContent(Permuted([ k \in 1..Len(files) |-> <<files[k]>> ], perm))
    /\ \E baseNameMap \in trackBaseNames(in.observed) :
         LET v == makeVars(NewEvaluator, in, baseNameMap) IN
         /\ e' = v.e
         /\ ctx' = v.ctx
    /\ inv' = newInvoker
    /\ pc' = "blocks"
    /\ bi' = 0
    /\ diags' = <<>>
    /\ curDiags' = <<>>
    /\ calls' = <<>>
    /\ loop' = NoLoop
    /\ response' = NoResult
    /\ UNCHANGED in
    /\ othersUnchanged

NextFiles ==
    \/ EvalFilesCalled
    \/ ProcessResource
    \/ ProcessResources
    \/ ProcessIteration
    \/ ToResponse
    \/ RerunPermuted

SpecFiles == Init /\ [][NextFiles]_vars

\* what the claim compares of two responses
Outcome(r) ==
    IF r.err # "" THEN [ok |-> FALSE]
    ELSE [ok |-> TRUE, Desired |-> r.res.Desired, Status |-> r.res.Status,
          ConnectionDetails |-> r.res.ConnectionDetails, Context |-> r.res.Context,
          Requirements |-> r.res.Requirements]

\* both runs are over
BothRunsOver == run = 2 /\ pc \in {"done", "failed"}

\* C29: for the same request, an evaluation of the same files in another
\* order has the same outcome, success or failure, and on success the
\* same desired resources, composite status, composite connection
\* details, context and requirements.
C29_FileOrderIrrelevant == BothRunsOver => Outcome(response) = Outcome(first)

\* the resource names the blocks of the files can install
NamesOf(b) ==
    IF b.Type = blockResource THEN {b.Label}
    ELSE { EvalName(b.name, b.Label, [key |-> ToString(i - 1), value |-> b.for_each.elems[i]]) :
             i \in 1..Len(b.for_each.elems) }

\* the same for files of which no two blocks can install the same name and
\* no resources block installs one name twice
C29_UnlessNamesRepeat ==
    (/\ BothRunsOver
     /\ \A k, m \in 1..Len(files) : k # m => NamesOf(files[k]) \cap NamesOf(files[m]) = {}
     /\ \A k \in 1..Len(files) : files[k].name \in {"", "default"})
        => Outcome(response) = Outcome(first)

-----------------------------------------------------------------------------
(* Ready blocks *)

\* the ready blocks nested in a block of the model
ReadyLists ==
    { <<ReadyBlock("READY_TRUE")>>, <<ReadyBlock("unknown")>>, <<ReadyBlock("bogus")>>,
      <<ReadyBlock("number")>>, <<ReadyBlock("READY_FALSE"), ReadyBlock("READY_TRUE")>> }

ReadyResources ==
    { WithBlocks(Block(blockResource, "x", cond, NoForEach, "", body), blocks) :
        cond \in {"none", "false"}, body \in {ExprLit, ExprUnknown}, blocks \in ReadyLists }
    \cup { Block(blockResource, "x", "none", NoForEach, "", ExprLit),
           WithBlocks(Block(blockResource, "y", "none", NoForEach, "", ExprLit), <<ReadyBlock("READY_TRUE")>>),
           WithBlocks(Block(blockResource, "y", "none", NoForEach, "", ExprUnknown), <<ReadyBlock("READY_TRUE")>>),
           WithBlocks(Block(blockResources, "c", "none", ForEachList, "default", ExprEach), <<ReadyBlock("READY_TRUE")>>),
           WithBlocks(Block(blockResources, "c", "false", ForEachList, "default", ExprEach), <<ReadyBlock("READY_TRUE")>>) }

ReadySources == UNION { [1..n -> ReadyResources] : n \in 1..MaxBlocks }

EvalReadyCalled == pc = "new" /\ \E req \in Requests, src \in ReadySources : Eval(req, src)

NextReady ==
    \/ EvalReadyCalled
    \/ ProcessResource
    \/ ProcessResources
    \/ ProcessIteration
    \/ ToResponse

SpecReady == Init /\ [][NextReady]_vars

\* C28: at every point of an evaluation every resource name with an entry
\* in the ready map has an entry in the desired resources, and the
\* assembly of the response does not panic.
C28_ReadyOnlyForDesired ==
    /\ DOMAIN e.ready \subseteq DOMAIN e.desiredResources
    /\ response.err # "panic"

\* x, with a ready block, was discarded as incomplete, while the members
\* of the collection c are ready
C28_Witness ==
    /\ pc = "done"
    /\ Len(files) = 2
    /\ files[1] = WithBlocks(Block(blockResource, "x", "none", NoForEach, "", ExprUnknown),
                             <<ReadyBlock("READY_TRUE")>>)
    /\ files[2].Label = "c"
    /\ e.discards = <<DiscardItem(discardTypeResource, discardReasonIncomplete, "x")>>
    /\ DOMAIN e.ready = {"c-0", "c-1"}
    /\ DOMAIN e.desiredResources = {"c-0", "c-1"}
    /\ response.res.Desired["c-0"].Ready = "READY_TRUE"

-----------------------------------------------------------------------------
(* Properties of Eval *)

IsIncompleteDiscard(di, name) ==
    di = DiscardItem(discardTypeResource, discardReasonIncomplete, name)

IncompleteDiscardsOf(name) ==
    { k \in 1..Len(e.discards) : IsIncompleteDiscard(e.discards[k], name) }

HasDiag(ds, summary) == \E k \in 1..Len(ds) : ds[k].Summary = summary


\* the iteration variable of the addResource call the next step makes
EachOfCall == IF pc = "iter" THEN loop.iters[loop.i + 1] ELSE NoEach

\* the body value the addResource call of the next step evaluates
BodyOfCall == EvalBody(CurrentBlock.body, EachOfCall, inv)

\* C1: a resource name that is in the observed resources of the request,
\* stand-alone or member of a collection, is never recorded as a discard of
\* type resource with reason incomplete.
C1_ObservedNeverDiscarded ==
    \A name \in DOMAIN in.observed : IncompleteDiscardsOf(name) = {}

\* C2: after every step, every entry of the desired-resources map holds a
\* wholly known body, and an entry added by the step holds the body value
\* that the addResource call of the step evaluated, without errors.
C2_DesiredWhollyKnown ==
    [][ \A name \in DOMAIN e'.desiredResources :
          /\ IsWhollyKnown(e'.desiredResources[name].body)
          /\ name \notin DOMAIN e.desiredResources =>
                /\ ~HasErrors(BodyOfCall.ds)
                /\ e'.desiredResources[name].body = BodyOfCall.val ]_vars

\* C2 witness: a run installed one resource and refused an incomplete body
C2_Witness ==
    /\ pc = "done"
    /\ DOMAIN e.desiredResources # {}
    /\ \E name \in {"x", "c-0"} : IncompleteDiscardsOf(name) # {}

HasRepeat(s) == \E i, j \in 1..Len(s) : i < j /\ s[i] = s[j]

C4_IncompleteNewResource ==
    [][ /\ ( /\ pc = "blocks" /\ bi < Len(files)
             /\ CurrentBlock.Type = blockResource
             /\ calls' # calls
             /\ CurrentBlock.Label \notin DOMAIN in.observed
             /\ ~IsDuplicate(e, CurrentBlock.Label)
             /\ CurrentBlock.condition = "none"
             /\ (HasErrors(BodyOfCall.ds) \/ ~IsWhollyKnown(BodyOfCall.val)) )
           => /\ pc' = "blocks"
              /\ e'.desiredResources = e.desiredResources
              /\ CurrentBlock.Label \notin DOMAIN e'.desiredResources
              /\ e'.discards = Append(e.discards,
                     DiscardItem(discardTypeResource, discardReasonIncomplete, CurrentBlock.Label))
              /\ ~HasErrors(curDiags')
              /\ Len(curDiags') = Len(BodyOfCall.ds)
        /\ ( /\ pc' = "done"
             /\ \E k \in 1..Len(e'.discards) : e'.discards[k].Reason = discardReasonIncomplete )
           => FullyResolved(response'.res) = "FALSE" ]_vars

\* C4 witness: a run discarded the incomplete resource x, which is not
\* observed, and returned a response with FullyResolved FALSE
C4_Witness ==
    /\ pc = "done"
    /\ "x" \notin DOMAIN in.observed
    /\ IncompleteDiscardsOf("x") # {}
    /\ "x" \notin DOMAIN e.desiredResources
    /\ HasDiag(response.res.Warnings, ErrMaxDepth)
    /\ FullyResolved(response.res) = "FALSE"

\* C5: the second evaluation of the same request and files returns what
\* the first one returned.
C5_Deterministic ==
    (run = 2 /\ pc \in {"done", "failed"}) => response = first

\* C10: a run in which an invoke call exceeded the depth bound returns no
\* response.
C10_DepthErrorIsFatal ==
    HasDiag(diags, ErrMaxDepth) => pc # "done"


\* an iteration of a resources block that has a list for for_each and no
\* name attribute is about to be made
ListIteration ==
    /\ pc = "iter"
    /\ CurrentBlock.for_each.t = "list"
    /\ CurrentBlock.name = "default"

\* the name of the i-th iteration of the collection B
NameOfIteration(B, i) == B \o "-" \o ToString(i)

\* C18: a resources block B with a list of n elements for for_each and no
\* name attribute is evaluated once per element, in list order; iteration
\* i (from 0) is made for the resource B-i, and the resource it installs
\* has the annotations collection-base-name = B and collection-index = s
\* and i in six digits, and every annotation the template body has under
\* another key.
C18_ListIteration ==
    [][ListIteration =>
         LET B == CurrentBlock.Label
             i == loop.i
             elems == CurrentBlock.for_each.elems
             name == NameOfIteration(B, i)
             tmpl == AnnotationsOf(BodyOfCall.val)
         IN /\ Len(loop.iters) = Len(elems)
            /\ loop.iters[i + 1].value = elems[i + 1]
            /\ calls' = Append(calls, name)
            /\ (name \notin DOMAIN e.desiredResources /\ IsWhollyKnown(BodyOfCall.val)) =>
                   /\ name \in DOMAIN e'.desiredResources
                   /\ e'.desiredResources[name].body.v = elems[i + 1]
                   /\ e'.desiredResources[name].annotations[annotationBaseName] = B
                   /\ e'.desiredResources[name].annotations[annotationIndex] =
                          <<"s", "0", "0", "0", "0", "0", ToString(i)>>
                   /\ \A k \in DOMAIN tmpl \ {annotationBaseName, annotationIndex} :
                          /\ k \in DOMAIN e'.desiredResources[name].annotations
                          /\ e'.desiredResources[name].annotations[k] = tmpl[k]
            /\ (i + 1 < Len(elems) /\ ~HasErrors(curDiags')) => (pc' = "iter" /\ loop'.i = i + 1)]_vars

\* both iterations of a list of two were made from a template with an
\* annotation of its own
C18_Witness ==
    /\ pc = "blocks"
    /\ DOMAIN e.desiredResources = {"c-0", "c-1"}
    /\ e.desiredResources["c-1"].annotations =
           ("team" :> "t")
           @@ ("hcl.fn.crossplane.io/collection-base-name" :> "c")
           @@ ("hcl.fn.crossplane.io/collection-index" :> <<"s", "0", "0", "0", "0", "0", "1">>)
    /\ e.desiredResources["c-1"].body.v = "q"
    /\ e.desiredResources["c-0"].body.v = "p"

-----------------------------------------------------------------------------
(* makeVars: observed collections *)

\* the first iteration number that has more digits than the index has
IndexLimit == 10 ^ IndexWidth

\* iteration numbers of a collection: small ones, and those around the
\* first that needs more than six digits
IterationSamples == {0, 1, 9, 10, IndexLimit - 1, IndexLimit}

\* the resource that iteration i of the resources block B installed, as it
\* is observed later: processResources named it B-i and gave it the
\* collection annotations (resources.go, lines 203-217)
Emitted(B, i) ==
    Observed(NameOfIteration(B, i),
             collectionAnnotations(B, i)[annotationBaseName],
             collectionAnnotations(B, i)[annotationIndex])

\* requests that observe resources of the collection c, with or without
\* the resource x that has no annotations
VarsRequests ==
    { [observed |-> [n \in { NameOfIteration("c", i) : i \in I } \cup X |->
                        IF n = "x" THEN Observed("x", "", NoIndex)
                        ELSE Emitted("c", CHOOSE i \in I : NameOfIteration("c", i) = n)]] :
        I \in SUBSET IterationSamples, X \in {{}, {"x"}} }

VarsSources ==
    { <<Block(blockResource, "x", "none", NoForEach, "", body)>> : body \in {ExprLit, ExprUnknown} }

EvalVarsCalled == pc = "new" /\ \E req \in VarsRequests, src \in VarsSources : Eval(req, src)

NextVars ==
    \/ EvalVarsCalled
    \/ ProcessResource
    \/ ToResponse

SpecVars == Init /\ [][NextVars]_vars

\* the position of the resource named n in the tuple t, 0 when it is not there
PositionOf(t, n) ==
    IF \E k \in 1..Len(t) : t[k].name = n
    THEN CHOOSE k \in 1..Len(t) : t[k].name = n
    ELSE 0

\* C19 as stated: for any two iterations i < j of a resources block, the
\* index annotation written for i is less than the one written for j as a
\* string, and the observed resources of the two are in this order in the
\* tuple of the collection.
C19_IndexOrderIsIterationOrder ==
    pc # "new" =>
        \A i, j \in IterationSamples :
            (/\ i < j
             /\ NameOfIteration("c", i) \in DOMAIN in.observed
             /\ NameOfIteration("c", j) \in DOMAIN in.observed) =>
                /\ StrLess(FormatIndex(i), FormatIndex(j))
                /\ PositionOf(ctx.resources["c"], NameOfIteration("c", i)) > 0
                /\ PositionOf(ctx.resources["c"], NameOfIteration("c", i))
                       < PositionOf(ctx.resources["c"], NameOfIteration("c", j))

\* C19: for two iterations i < j below 1,000,000 of a resources block, the
\* index annotation written for i is less than the one written for j as a
\* string, and the observed resources of the two are in this order in the
\* tuple of the collection.
C19_OrderedBelowLimit ==
    pc # "new" =>
        \A i, j \in IterationSamples :
            (/\ i < j
             /\ j < IndexLimit
             /\ NameOfIteration("c", i) \in DOMAIN in.observed
             /\ NameOfIteration("c", j) \in DOMAIN in.observed) =>
                /\ StrLess(FormatIndex(i), FormatIndex(j))
                /\ PositionOf(ctx.resources["c"], NameOfIteration("c", i)) > 0
                /\ PositionOf(ctx.resources["c"], NameOfIteration("c", i))
                       < PositionOf(ctx.resources["c"], NameOfIteration("c", j))

\* the resources of iterations 0, 9, 10 and 999999 are observed and are in
\* this order in the tuple of the collection
C19_Witness ==
    /\ pc # "new"
    /\ DOMAIN in.observed = {"c-0", "c-9", "c-10", "c-999999"}
    /\ [k \in 1..4 |-> ctx.resources["c"][k].name] = <<"c-0", "c-9", "c-10", "c-999999">>

\* the elements of a tuple
ElementsOf(t) == { t[k] : k \in 1..Len(t) }

\* C20: in the request environment an observed resource with a
\* collection-base-name annotation is in req.resources[baseName], its
\* connection details are in req.connections[baseName], and it is in
\* neither req.resource nor req.connection; an observed resource without
\* the annotation is in req.resource and req.connection only.
C20_CollectionMembersNotFlat ==
    pc # "new" =>
        \A n \in DOMAIN in.observed :
            LET r == in.observed[n] IN
            IF r.base # ""
            THEN /\ r.base \in DOMAIN ctx.resources
                 /\ r \in ElementsOf(ctx.resources[r.base])
                 /\ r.connection \in ElementsOf(ctx.connections[r.base])
                 /\ n \notin DOMAIN ctx.resource
                 /\ n \notin DOMAIN ctx.connection
            ELSE /\ n \in DOMAIN ctx.resource
                 /\ ctx.resource[n] = r
                 /\ n \in DOMAIN ctx.connection
                 /\ ctx.connection[n] = r.connection
                 /\ \A b \in DOMAIN ctx.resources : r \notin ElementsOf(ctx.resources[b])

-----------------------------------------------------------------------------
(* Static analysis: the analyzer *)

reservedReq == "req"
reservedSelf == "self"
iteratorName == "each"
blockTemplate == "template"

\* the steps of a traversal: hcl.TraverseRoot, hcl.TraverseAttr and
\* hcl.TraverseIndex (the key is a cty string or a cty number)
Root(name) == [t |-> "root", name |-> name]
Attr(name) == [t |-> "attr", name |-> name]
Index(keyType, key) == [t |-> "index", keyType |-> keyType, key |-> key]

\* the names declared and referred to in the sources that are analyzed
AnalyzerNames == {"x", "y"}

\* hclutils.IsIdentifier on the keys of the model: a name is an identifier,
\* "0" is not
IsIdentifier(s) == s \in AnalyzerNames

\* hclutils.NormalizeTraversal: an index step whose key is a string that is
\* an identifier becomes an attribute step
NormalizeTraversal(t) ==
    [ k \in 1..Len(t) |->
        IF t[k].t = "index" /\ t[k].keyType = "string" /\ IsIdentifier(t[k].key)
        THEN Attr(t[k].key)
        ELSE t[k] ]

\* a block of an analyzed source: its type, its label, the traversals of
\* the expressions of its attributes (expr.Variables()) and the blocks
\* nested in it
ABlock(type, label, refs, blocks) ==
    [Type |-> type, Label |-> label, refs |-> refs, blocks |-> blocks]

newAnalyzer == [resourceNames |-> {}, collectionNames |-> {}, requirementNames |-> {}]

ErrResourceTwice == "resource defined more than once"
ErrCollectionTwice == "resource collection defined more than once"
ErrRequirementTwice == "requirement defined more than once"
ErrInvalidIndex == "invalid index expression"
ErrNoSuchAttribute == "no such attribute"
ErrResourceRef == "invalid resource name reference"
ErrCollectionRef == "invalid resource collection name reference"
ErrEachRef == "invalid each reference, must be one of 'key' or 'value'"
ErrLocalRef == "invalid local variable reference"

\* analyzer.addResource, addCollection and addRequirement: [a, diags]
addName(a, field, summary, name) ==
    IF name \in a[field]
    THEN [a |-> a, diags |-> <<Diag(DiagError, summary, name)>>]
    ELSE [a |-> [a EXCEPT ![field] = @ \cup {name}], diags |-> <<>>]

\* analyzer.checkStructure on the blocks k.. of a body: the names of the
\* resource, resources and requirement blocks are registered, those of the
\* nested blocks included: [a, diags]
RECURSIVE checkStructure(_, _, _)
checkStructure(a, blocks, k) ==
    IF k > Len(blocks) THEN [a |-> a, diags |-> <<>>]
    ELSE LET block == blocks[k]
             added ==
                 CASE block.Type = blockResource ->
                        addName(a, "resourceNames", ErrResourceTwice, block.Label)
                   [] block.Type = blockResources ->
                        addName(a, "collectionNames", ErrCollectionTwice, block.Label)
                   [] block.Type = blockRequirement ->
                        addName(a, "requirementNames", ErrRequirementTwice, block.Label)
                   [] OTHER -> [a |-> a, diags |-> <<>>]
             nested == checkStructure(added.a, block.blocks, 1)
             rest == checkStructure(nested.a, blocks, k + 1)
         IN [a |-> rest.a, diags |-> added.diags \o nested.diags \o rest.diags]

\* checkReferences, lines 375-383: the third step of req.resource and of
\* req.resources is looked up in the names of the source
checkNames(a, second, thirdStep) ==
    CASE second = "resource" /\ thirdStep \notin a.resourceNames ->
           <<Diag(DiagError, ErrResourceRef, thirdStep)>>
      [] second = "resources" /\ thirdStep \notin a.collectionNames ->
           <<Diag(DiagError, ErrCollectionRef, thirdStep)>>
      [] OTHER -> <<>>

\* analyzer.checkReferences: the diagnostics for one traversal.  tables
\* holds the attribute names of req and of self.
checkReferences(a, chain, tables, traversal) ==
    LET expr == NormalizeTraversal(traversal)
        rootName == expr[1].name
        localRef ==
            IF hasVariable(chain, rootName) THEN <<>>
            ELSE <<Diag(DiagError, ErrLocalRef, rootName)>>
    IN CASE rootName \in {reservedReq, reservedSelf} ->
              IF Len(expr) < 2 THEN <<>>
              ELSE IF expr[2].t # "attr"
              THEN <<Diag(DiagError, ErrInvalidIndex, traversal)>>
              ELSE IF expr[2].name \notin tables[rootName]
              THEN <<Diag(DiagError, ErrNoSuchAttribute, traversal)>>
              ELSE LET second == expr[2].name
                       thirdStep == IF Len(expr) > 2 /\ expr[3].t = "attr"
                                    THEN expr[3].name ELSE ""
                   IN IF thirdStep = "" THEN <<>>
                      ELSE IF rootName = reservedReq THEN checkNames(a, second, thirdStep)
                      ELSE IF second = "each" /\ thirdStep \notin {"key", "value"}
                      THEN <<Diag(DiagError, ErrEachRef, thirdStep)>>
                      ELSE <<>>
         [] rootName = iteratorName ->
              IF Len(expr) < 2 THEN <<>>
              ELSE IF expr[2].t # "attr"
              THEN <<Diag(DiagError, ErrInvalidIndex, traversal)>>
              ELSE IF expr[2].name \notin {"key", "value"}
              THEN <<Diag(DiagError, ErrEachRef, expr[2].name)>>
              ELSE localRef
         [] OTHER -> localRef

\* extractSymbolTable: the attribute names of the nearest variable of the
\* name, none when the chain has no such variable
extractSymbolTable(chain, namespace) ==
    IF hasVariable(chain, namespace) THEN Visible(chain)[namespace] ELSE {}

\* makeTables
makeTables(chain) ==
    [ req |-> extractSymbolTable(chain, reservedReq),
      self |-> extractSymbolTable(chain, reservedSelf) ]

\* createSelfChildContext: a child environment whose self has the
\* attributes of the nearest self and the added ones
createSelfChildContext(chain, names) ==
    <<[self |-> extractSymbolTable(chain, reservedSelf) \cup names]>> \o chain

\* analyzeContent, lines 430-445: the environment of the content of a block
SelfContext(chain, parentType) ==
    CASE parentType = blockResources ->
           createSelfChildContext(chain, {"basename", "resources", "connections"})
      [] parentType \in {blockResource, blockTemplate} ->
           createSelfChildContext(chain, {"name", "resource", "connection"})
      [] OTHER -> chain

\* the diagnostics of the traversals k.. of refs, in order
RECURSIVE checkAll(_, _, _, _, _)
checkAll(a, chain, tables, refs, k) ==
    IF k > Len(refs) THEN <<>>
    ELSE checkReferences(a, chain, tables, refs[k]) \o checkAll(a, chain, tables, refs, k + 1)

\* analyzer.analyzeContent on the content of a block of the type parentType:
\* the attributes are checked in the environment of the block, the nested
\* blocks k.. in that environment, to which a resources block adds each.
\* The sources of the model have no locals, no function calls and no name
\* attribute.
RECURSIVE analyzeContent(_, _, _, _, _, _)
analyzeContent(a, chain, parentType, refs, blocks, k) ==
    LET ctx1 == SelfContext(chain, parentType)
        ctx2 == IF parentType = blockResources
                THEN <<[each |-> {"key", "value"}]>> \o ctx1 ELSE ctx1
        own == IF k = 1 THEN checkAll(a, ctx1, makeTables(ctx1), refs, 1) ELSE <<>>
    IN IF k > Len(blocks) THEN own
       ELSE own \o analyzeContent(a, ctx2, blocks[k].Type, blocks[k].refs, blocks[k].blocks, 1)
                \o analyzeContent(a, chain, parentType, refs, blocks, k + 1)

\* the request analyze gives to makeVars, lines 552-563
DummyRequest == [observed |-> EmptyMap]

\* the attributes of req: those of the variables makeVars builds (out,
\* lines 217-224, and lines 262-263)
ReqAttributes(reqVars) ==
    DOMAIN reqVars \cup {"context", "composite", "composite_connection", "extra_resources"}

\* hcl.Diagnostics sorted by sort.SliceStable on the severity: the errors
\* first
sortDiagsBySeverity(ds) ==
    SelectSeq(ds, LAMBDA d : d.Severity = DiagError)
        \o SelectSeq(ds, LAMBDA d : d.Severity # DiagError)

analyzeWithNewEvaluator(E, src) == [e |-> NewEvaluator, diags |-> <<>>]

\* analyzer.analyze on the one body of a source: [e, diags].  The
\* structure is checked and the names are registered first; an error there
\* ends the analysis.  makeVars then fills the lookup tables of the
\* evaluator from the dummy request.
analyze(E, src) ==
    LET cs == checkStructure(newAnalyzer, src, 1)
        v == makeVars(E, DummyRequest, EmptyMap)
        chain == <<[req |-> ReqAttributes(v.ctx)], EmptyMap>>
    IN IF HasErrors(cs.diags) THEN [e |-> E, diags |-> cs.diags]
       ELSE [e |-> v.e, diags |-> analyzeContent(cs.a, chain, "", <<>>, src, 1)]

\* Evaluator.doAnalyze
doAnalyze(E, src) ==
    LET r == analyze(E, src) IN [e |-> r.e, diags |-> sortDiagsBySeverity(r.diags)]

(* The sources that are analyzed *)

MaxAnalyzed == 2

ReqKinds == {"resource", "connection", "resources", "connections", "extra_resources"}

\* req.<kind>.<name>, and req.resource["y"]
NameRefs ==
    { <<Root(reservedReq), Attr(kind), Attr(n)>> : kind \in ReqKinds, n \in AnalyzerNames }
    \cup { <<Root(reservedReq), Attr("resource"), Index("string", "y")>> }

\* other references: a number index, an attribute req does not have, self,
\* each and a local variable
OtherRefs ==
    { <<Root(reservedReq), Attr("resource"), Index("number", "0")>>,
      <<Root(reservedReq), Attr("nosuch"), Attr("x")>>,
      <<Root(reservedReq), Index("number", "0")>>,
      <<Root(reservedSelf), Attr("name")>>,
      <<Root(iteratorName), Attr("key")>>,
      <<Root("a")>> }

Template(refs) == ABlock(blockTemplate, "", refs, <<>>)

\* the blocks that declare the name x: a resource, a collection, a
\* requirement and a resource nested in a group
DeclaringBlocks ==
    { ABlock(blockResource, "x", <<>>, <<>>),
      ABlock(blockResources, "x", <<>>, <<Template(<<>>)>>),
      ABlock(blockRequirement, "x", <<>>, <<>>),
      ABlock(blockGroup, "", <<>>, <<ABlock(blockResource, "x", <<>>, <<>>)>>) }

\* the blocks that refer: a resource r whose body holds one reference, and
\* a collection rs whose template holds one
ReferringBlocks ==
    { ABlock(blockResource, "r", <<ref>>, <<>>) : ref \in NameRefs \cup OtherRefs }
    \cup { ABlock(blockResources, "rs", <<>>, <<Template(<<ref>>)>>) :
             ref \in {<<Root(iteratorName), Attr("key")>>, <<Root(iteratorName), Attr("nosuch")>>} }

\* the sources of n blocks
AnalyzedSources(n) == [1..n -> DeclaringBlocks \cup ReferringBlocks]

\* no Analyze call yet
NoAnalysis == [calls |-> 0]

\* Analyze(files...): alast holds the source, the evaluator before the
\* call and the diagnostics returned
Analyze(src) ==
    /\ LET r == doAnalyze(e, src) IN
         /\ e' = r.e
         /\ alast' = [src |-> src, before |-> e, diags |-> r.diags]
    /\ UNCHANGED <<pc, in, ctx, files, bi, inv, diags, curDiags, calls, loop, response, run, first>>
    /\ UNCHANGED <<lsrc, lout, uin, uout, ilast>>

\* the host analyzes a source, once, with an evaluator that is new or has
\* evaluated
AnalyzeCalled ==
    /\ pc \in {"new", "done", "failed"}
    /\ alast = NoAnalysis
    /\ \E n \in 1..MaxAnalyzed : \E src \in AnalyzedSources(n) : Analyze(src)

\* the sources evaluated before the analysis
EvaluatedSources ==
    { <<Block(blockResource, "x", "none", NoForEach, "", body)>> : body \in {ExprLit, ExprUnknown} }

EvalBeforeAnalyze ==
    /\ pc = "new"
    /\ alast = NoAnalysis
    /\ \E req \in Requests, src \in EvaluatedSources : Eval(req, src)

NextAnalyze ==
    \/ EvalBeforeAnalyze
    \/ ProcessResource
    \/ ToResponse
    \/ AnalyzeCalled

InitAnalyze ==
    /\ EvalInit
    /\ inv = newInvoker
    /\ lsrc = Idle /\ lout = Idle /\ uin = Idle /\ uout = Idle /\ ilast = Idle
    /\ alast = NoAnalysis

SpecAnalyze == InitAnalyze /\ [][NextAnalyze]_vars

\* the blocks of a source, the nested ones included
RECURSIVE BlocksOf(_, _)
BlocksOf(blocks, k) ==
    IF k > Len(blocks) THEN {}
    ELSE {blocks[k]} \cup BlocksOf(blocks[k].blocks, 1) \cup BlocksOf(blocks, k + 1)

\* the names a source declares with blocks of a type
DeclaredAs(src, type) == { b.Label : b \in { c \in BlocksOf(src, 1) : c.Type = type } }

\* the references req.<kind>.<name> of a source, as [kind, name]
NameReferences(src) ==
    LET traversals == { NormalizeTraversal(b.refs[1]) :
                          b \in { c \in BlocksOf(src, 1) : Len(c.refs) > 0 } }
        named == { t \in traversals :
                     /\ Len(t) = 3
                     /\ t[1].name = reservedReq
                     /\ t[2].t = "attr" /\ t[2].name \in ReqKinds
                     /\ t[3].t = "attr" }
    IN { [kind |-> t[2].name, name |-> t[3].name] : t \in named }

\* the names a reference of a kind may name
DeclaredFor(src, kind) ==
    CASE kind \in {"resource", "connection"} -> DeclaredAs(src, blockResource)
      [] kind \in {"resources", "connections"} -> DeclaredAs(src, blockResources)
      [] OTHER -> DeclaredAs(src, blockRequirement)

\* the summaries of the errors about a name of a kind
SummariesFor(kind) ==
    CASE kind \in {"resource", "connection"} -> {ErrResourceRef}
      [] kind \in {"resources", "connections"} -> {ErrCollectionRef}
      [] OTHER -> {ErrResourceRef, ErrCollectionRef}

\* the diagnostics hold an error about the name of the reference
Reported(ds, ref) ==
    \E i \in 1..Len(ds) :
        /\ ds[i].Severity = DiagError
        /\ ds[i].Summary \in SummariesFor(ref.kind)
        /\ ds[i].Subject = ref.name

StructureErrors(ds) ==
    \E i \in 1..Len(ds) :
        ds[i].Summary \in {ErrResourceTwice, ErrCollectionTwice, ErrRequirementTwice}

\* C22: the analyzer reports an error for every reference req.<kind>.<name>
\* whose name the source does not declare as a resource (kinds resource and
\* connection), as a collection (kinds resources and connections) or as a
\* requirement (kind extra_resources), and no such error when the name is
\* declared anywhere in the source, before or after the reference.
C22_UndeclaredNamesReported ==
    alast # NoAnalysis =>
        \A ref \in NameReferences(alast.src) :
            Reported(alast.diags, ref) <=> ref.name \notin DeclaredFor(alast.src, ref.kind)

\* What the analyzer does for the kinds resource and resources, when the
\* structure of the source has no error: an error is reported exactly for
\* the names that are not declared, wherever the declaration is.
C22_ResourceAndCollectionNamesChecked ==
    (alast # NoAnalysis /\ ~StructureErrors(alast.diags)) =>
        \A ref \in NameReferences(alast.src) :
            ref.kind \in {"resource", "resources"} =>
                (Reported(alast.diags, ref) <=> ref.name \notin DeclaredFor(alast.src, ref.kind))

\* a reference to a connection that is not declared, analyzed without any
\* error
C22_UncheckedKind ==
    /\ alast # NoAnalysis
    /\ alast.diags = <<>>
    /\ \E ref \in NameReferences(alast.src) :
         ref.kind = "connection" /\ ref.name \notin DeclaredFor(alast.src, ref.kind)

\* the outputs of the evaluator
Outputs(E) ==
    [ desiredResources     |-> E.desiredResources,
      compositeStatuses    |-> E.compositeStatuses,
      compositeConnections |-> E.compositeConnections,
      contexts             |-> E.contexts,
      ready                |-> E.ready,
      requirements         |-> E.requirements,
      discards             |-> E.discards ]

\* C21: Analyze produces no desired state and no other output: the desired
\* resources, composite statuses, composite connections, contexts, ready
\* map, requirements and discards of the evaluator are after the call what
\* they were before it.
C21_AnalyzeLeavesOutputs ==
    [][ alast' # alast => Outputs(e') = Outputs(e) ]_vars

\* an evaluator that holds a desired resource analyzes a source without a
\* structure error: its lookup tables are written, its outputs are not
C21_Witness ==
    /\ alast # NoAnalysis
    /\ pc = "done"
    /\ DOMAIN alast.before.desiredResources # {}
    /\ e # alast.before
    /\ Outputs(e) = Outputs(alast.before)
    /\ DeclaredAs(alast.src, blockResource) # {}

-----------------------------------------------------------------------------
(* User functions: the environment of a function *)

\* the expressions of the functions of the model: a literal, a reference to
\* a variable and invoke(fn, {a = <variable>})
FLit(v) == [k |-> "lit", v |-> v]
FRef(name) == [k |-> "ref", name |-> name]
FInvoke(fn, name) == [k |-> "invoke", fn |-> fn, name |-> name]

\* Arg: HasDefault and Default
Arg(hasDefault, default) == [HasDefault |-> hasDefault, Default |-> default]

\* UserFunction: Name, Args, the locals of blockContent and body
UserFunction(name, args, locals, body) ==
    [Name |-> name, Args |-> args, locals |-> locals, body |-> body]

NilVal == 0

ErrNotFound == "user function not found"
ErrNotObject == "arguments to user function is not an object"
ErrInvalidArgument == "invalid argument"
ErrNotSupplied == "argument expected but not supplied"
ErrUnknownVariable == "Unknown variable"

\* the second argument of invoke: an object, or a value of another type
ArgsObject(m) == [object |-> TRUE, m |-> m]
NotAnObject == [object |-> FALSE, m |-> EmptyMap]

rootContextWithCaller(i, values) == <<values, ctx>>

\* invoker.rootContext: an environment without a parent, whose variables
\* are the values
rootContext(i, values) == <<values>>

\* UserFunction.invoke, lines 25-35: the values of the arguments, supplied
\* or defaulted
ArgumentValues(f, params) ==
    [ name \in DOMAIN f.Args |->
        IF name \in DOMAIN params THEN params[name] ELSE f.Args[name].Default ]

RECURSIVE Value(_, _, _)
RECURSIVE invoke(_, _, _)

\* UserFunction.invoke: [val, err, inv].  The functions of the model have
\* at most one argument without a default and are called with at most one
\* argument they do not have, so the error does not depend on the order in
\* which the maps are visited.
UserFunctionInvoke(f, i, params) ==
    LET failed(err, j) == [val |-> NilVal, err |-> err, inv |-> j] IN
    IF \E pName \in DOMAIN params : pName \notin DOMAIN f.Args
    THEN failed(ErrInvalidArgument, i)
    ELSE IF \E name \in DOMAIN f.Args : name \notin DOMAIN params /\ ~f.Args[name].HasDefault
    THEN failed(ErrNotSupplied, i)
    ELSE LET root == rootContext(i, ArgumentValues(f, params))
             \* lp.Process(ctx, f.blockContent): the locals, in a child
             names == DOMAIN f.locals
         IN IF names = {}
            THEN Value(i, root, f.body)
            ELSE LET name == CHOOSE n \in names : TRUE
                     l == Value(i, root, f.locals[name])
                 IN IF l.err # "" THEN failed(l.err, l.inv)
                    ELSE Value(l.inv, <<(name :> l.val)>> \o root, f.body)

\* invoker.invoke: [val, err, inv]
invoke(i, name, args) ==
    LET entered == [i EXCEPT !.depth = i.depth + 1]
        exited(r) == [r EXCEPT !.inv.depth = r.inv.depth - 1]
        failed(err) == [val |-> NilVal, err |-> err, inv |-> entered]
    IN IF DepthExceeded(entered.depth) THEN failed(ErrMaxDepth)
       ELSE IF name \notin DOMAIN i.fns THEN exited(failed(ErrNotFound))
       ELSE IF ~args.object THEN exited(failed(ErrNotObject))
       ELSE exited(UserFunctionInvoke(i.fns[name], entered, args.m))

\* expr.Value(ctx) with the functions of the invoker: [val, err, inv]
Value(i, chain, expr) ==
    CASE expr.k = "lit" -> [val |-> expr.v, err |-> "", inv |-> i]
      [] expr.k = "ref" ->
           IF hasVariable(chain, expr.name)
           THEN [val |-> Visible(chain)[expr.name], err |-> "", inv |-> i]
           ELSE [val |-> NilVal, err |-> ErrUnknownVariable, inv |-> i]
      [] OTHER ->
           IF ~hasVariable(chain, expr.name)
           THEN [val |-> NilVal, err |-> ErrUnknownVariable, inv |-> i]
           ELSE invoke(i, expr.fn, ArgsObject([a |-> Visible(chain)[expr.name]]))

\* the function blocks of the source: f, whose body may call g
FunctionsF ==
    { UserFunction("f", args, locals, body) :
        args \in { [a |-> Arg(FALSE, NilVal)], [a |-> Arg(TRUE, 7), b |-> Arg(TRUE, 1)] },
        locals \in { EmptyMap, [output |-> FRef("req")] },
        body \in { FRef("a"), FRef("output"), FRef("x"), FInvoke("g", "a") } }

FunctionsG ==
    { UserFunction("g", [a |-> Arg(FALSE, NilVal)], EmptyMap, body) :
        body \in { FRef("a"), FRef("b") } }

FunctionTables == { [f |-> f, g |-> g] : f \in FunctionsF, g \in FunctionsG }

\* the environments of the expressions that call invoke: req, and the self,
\* each and locals of the block
CallerEnvironments ==
    { [req |-> 11],
      [req |-> 12, self |-> 31, each |-> 41, x |-> 21, a |-> 51, b |-> 52, output |-> 61] }

InvokedNames == {"f", "nosuch"}

InvokedArgs ==
    { ArgsObject(EmptyMap), ArgsObject([a |-> 1]), ArgsObject([z |-> 1]), NotAnObject }

MaxCalls == 2

InitFunctions ==
    /\ EvalInit
    /\ inv \in { [depth |-> 0, fns |-> fns] : fns \in FunctionTables }
    /\ ilast = <<>>
    /\ lsrc = Idle /\ lout = Idle /\ uin = Idle /\ uout = Idle /\ alast = Idle

\* the evaluation reaches an expression of a block: ctx holds the variables
\* of its environment
EnterBlock ==
    /\ \E env \in CallerEnvironments : ctx' = env
    /\ UNCHANGED <<pc, in, files, bi, e, inv, diags, curDiags, calls, loop, response, run, first>>
    /\ othersUnchanged

\* the expression calls invoke(name, args); ilast holds the calls made
InvokeFromBlock ==
    /\ ctx # NoContext
    /\ Len(ilast) < MaxCalls
    /\ \E name \in InvokedNames, args \in InvokedArgs :
         LET r == invoke(inv, name, args) IN
         /\ inv' = r.inv
         /\ ilast' = Append(ilast, [caller |-> ctx, name |-> name, args |-> args,
                                    val |-> r.val, err |-> r.err])
    /\ UNCHANGED evalVars
    /\ UNCHANGED <<lsrc, lout, uin, uout, alast>>

NextFunctions == EnterBlock \/ InvokeFromBlock

SpecFunctions == InitFunctions /\ [][NextFunctions]_vars

C23_CallerNamesUnknown ==
    \A j \in 1..Len(ilast) :
        (/\ ilast[j].name = "f" /\ ilast[j].args = ArgsObject([a |-> 1])
         /\ inv.fns.f.Args = [a |-> Arg(FALSE, NilVal)]
         /\ (inv.fns.f.locals # EmptyMap \/ inv.fns.f.body = FRef("x"))) =>
            ilast[j].err = ErrUnknownVariable

====
